---- MODULE Spec2Model ----
(***************************************************************************)
(* Model of the CoreLab 3D backend (backend/corelab/engine.py and the      *)
(* endpoints of backend/main.py that call it).                             *)
(*                                                                         *)
(* Real numbers are exact: depths and coordinates are integers (metres),   *)
(* derived values are rationals <<num, den>> in lowest terms with den > 0. *)
(* A missing value (None / NaN) is the empty tuple.                        *)
(***************************************************************************)
EXTENDS Integers, Sequences, FiniteSets, TLC

---------------------------------------------------------------------------
(* Numbers                                                                 *)

Null == << >>

IsNull(v) == v = Null

\* mutant: the sign is kept
AbsSigned(n) == n

Abs(n) == IF n < 0 THEN -n ELSE n

Min(a, b) == IF a <= b THEN a ELSE b

Max(a, b) == IF a >= b THEN a ELSE b

RECURSIVE GCD(_, _)
GCD(a, b) == IF b = 0 THEN a ELSE GCD(b, a % b)

\* the rational n/d in lowest terms, d # 0
Rat(n, d) ==
    LET g == GCD(Abs(n), Abs(d))
        s == IF d < 0 THEN -1 ELSE 1
    IN  <<(s * n) \div g, (s * d) \div g>>

---------------------------------------------------------------------------
(* Exact integers of any size, for the kriging system: a sign and the      *)
(* digits of the magnitude, least significant first, no leading zero       *)

\* radix of the digit sequences
Base == 100 * 100

Digit(a, i) == IF i <= Len(a) THEN a[i] ELSE 0

RECURSIVE Trim(_)
Trim(a) ==
    IF a = << >> THEN << >>
    ELSE IF a[Len(a)] = 0 THEN Trim(SubSeq(a, 1, Len(a) - 1)) ELSE a

RECURSIVE MagOfNat(_)
MagOfNat(n) == IF n = 0 THEN << >> ELSE <<n % Base>> \o MagOfNat(n \div Base)

RECURSIVE MagAddFrom(_, _, _, _)
MagAddFrom(a, b, i, carry) ==
    IF i > Len(a) /\ i > Len(b)
    THEN IF carry = 0 THEN << >> ELSE <<carry>>
    ELSE LET t == Digit(a, i) + Digit(b, i) + carry
         IN  <<t % Base>> \o MagAddFrom(a, b, i + 1, t \div Base)

MagAdd(a, b) == MagAddFrom(a, b, 1, 0)

\* a - b for a >= b
RECURSIVE MagSubFrom(_, _, _, _)
MagSubFrom(a, b, i, borrow) ==
    IF i > Len(a) THEN << >>
    ELSE LET t == Digit(a, i) - Digit(b, i) - borrow
         IN  IF t < 0 THEN <<t + Base>> \o MagSubFrom(a, b, i + 1, 1)
             ELSE <<t>> \o MagSubFrom(a, b, i + 1, 0)

MagSub(a, b) == Trim(MagSubFrom(a, b, 1, 0))

\* -1, 0, 1 as a < b, a = b, a > b
RECURSIVE MagCmpFrom(_, _, _)
MagCmpFrom(a, b, i) ==
    IF i = 0 THEN 0
    ELSE IF a[i] < b[i] THEN -1
    ELSE IF a[i] > b[i] THEN 1
    ELSE MagCmpFrom(a, b, i - 1)

MagCmp(a, b) ==
    IF Len(a) < Len(b) THEN -1
    ELSE IF Len(a) > Len(b) THEN 1
    ELSE MagCmpFrom(a, b, Len(a))

RECURSIVE MagScaleFrom(_, _, _, _)
MagScaleFrom(a, k, i, carry) ==
    IF i > Len(a) THEN (IF carry = 0 THEN << >> ELSE <<carry>>)
    ELSE LET t == a[i] * k + carry
         IN  <<t % Base>> \o MagScaleFrom(a, k, i + 1, t \div Base)

\* a * k for a digit k
MagScale(a, k) == IF k = 0 THEN << >> ELSE MagScaleFrom(a, k, 1, 0)

RECURSIVE MagMul(_, _)
MagMul(a, b) ==
    IF a = << >> \/ b = << >> THEN << >>
    ELSE LET rest == MagMul(Tail(a), b)
         IN  MagAdd(MagScale(b, a[1]),
                    IF rest = << >> THEN << >> ELSE <<0>> \o rest)

Big(s, m) == [s |-> IF m = << >> THEN 0 ELSE s, m |-> m]

BigOfInt(n) == IF n < 0 THEN Big(-1, MagOfNat(-n)) ELSE Big(1, MagOfNat(n))

BigZero == Big(0, << >>)

BigNeg(a) == Big(-a.s, a.m)

BigAdd(a, b) ==
    IF a.s = 0 THEN b
    ELSE IF b.s = 0 THEN a
    ELSE IF a.s = b.s THEN Big(a.s, MagAdd(a.m, b.m))
    ELSE LET c == MagCmp(a.m, b.m)
         IN  IF c = 0 THEN BigZero
             ELSE IF c > 0 THEN Big(a.s, MagSub(a.m, b.m))
             ELSE Big(b.s, MagSub(b.m, a.m))

BigSub(a, b) == BigAdd(a, BigNeg(b))

\* MagMul recurses over its first argument: the shorter one
BigMul(a, b) ==
    Big(a.s * b.s,
        IF Len(a.m) <= Len(b.m) THEN MagMul(a.m, b.m) ELSE MagMul(b.m, a.m))

BigAbs(a) == Big(a.s * a.s, a.m)

\* a <= b
BigLeq(a, b) == BigSub(b, a).s >= 0

\* a real number num / den with den > 0, not reduced
Real(num, den) ==
    IF den.s < 0 THEN [num |-> BigNeg(num), den |-> BigNeg(den)]
    ELSE [num |-> num, den |-> den]

RealOfRat(v) == Real(BigOfInt(v[1]), BigOfInt(v[2]))

RealEq(a, b) == BigMul(a.num, b.den) = BigMul(b.num, a.den)

RealLeq(a, b) == BigLeq(BigMul(a.num, b.den), BigMul(b.num, a.den))

RealSub(a, b) ==
    Real(BigSub(BigMul(a.num, b.den), BigMul(b.num, a.den)),
         BigMul(a.den, b.den))

RealAbs(a) == [num |-> BigAbs(a.num), den |-> a.den]

\* the matrix without its first row and its column j
Minor(M, j) ==
    [r \in 1..(Len(M) - 1) |->
        [c \in 1..(Len(M) - 1) |-> M[r + 1][IF c < j THEN c ELSE c + 1]]]

\* determinant by expansion along the first row
RECURSIVE Det(_)
RECURSIVE DetTerms(_, _)
DetTerms(M, j) ==
    IF j > Len(M) THEN BigZero
    ELSE LET term == IF M[1][j].s = 0 THEN BigZero
                     ELSE BigMul(M[1][j], Det(Minor(M, j)))
         IN  BigAdd(IF j % 2 = 1 THEN term ELSE BigNeg(term),
                    DetTerms(M, j + 1))

Det(M) == IF Len(M) = 1 THEN M[1][1] ELSE DetTerms(M, 1)

\* the matrix with column j replaced by the vector k
WithColumn(M, j, k) ==
    [r \in 1..Len(M) |-> [c \in 1..Len(M) |-> IF c = j THEN k[r] ELSE M[r][c]]]

---------------------------------------------------------------------------
(* Bounds of the model                                                     *)

MaxStations == 2

MaxRows == 2

\* depths (metres) of survey stations
Depths == {0, 5, 10, 15}

\* sequences over S of length at most n
SeqsUpTo(S, n) == UNION {[1..k -> S] : k \in 0..n}

\* the same without repeated elements
DistinctSeqsUpTo(S, n) ==
    {s \in SeqsUpTo(S, n) : \A i, j \in 1..Len(s) : s[i] = s[j] => i = j}

\* survey frames of one hole: at most MaxStations stations, ascending by depth
SurveysOver(stations) ==
    {s \in SeqsUpTo(stations, MaxStations) :
        \A i \in 1..(Len(s) - 1) : s[i].AT <= s[i + 1].AT}

---------------------------------------------------------------------------
(* 1) Trajectory                                                           *)

\* math.sin / math.cos of math.radians(deg) at the multiples of 90 degrees
SinDeg(deg) ==
    LET r == deg % 360
    IN  IF r = 90 THEN 1 ELSE IF r = 270 THEN -1 ELSE 0

CosDeg(deg) ==
    LET r == deg % 360
    IN  IF r = 0 THEN 1 ELSE IF r = 180 THEN -1 ELSE 0

RECURSIVE TrajectoryFrom(_, _, _, _, _, _)
TrajectoryFrom(x, y, z, last_depth, survey, i) ==
    IF i > Len(survey) THEN << >>
    ELSE LET row == survey[i]
             depth == row.AT
             advance == depth - last_depth
             dx == advance * SinDeg(row.AZ) * CosDeg(row.DIP)
             dy == advance * CosDeg(row.AZ) * CosDeg(row.DIP)
             dz == advance * SinDeg(row.DIP)
             nx == x + dx
             ny == y + dy
             nz == z - Abs(dz)
         IN  <<[x |-> nx, y |-> ny, z |-> nz, depth |-> depth]>>
             \o TrajectoryFrom(nx, ny, nz, depth, survey, i + 1)

\* mutant: the collar is not appended
compute_trajectory_NoCollar(collar_row, survey_df) ==
    TrajectoryFrom(collar_row.X, collar_row.Y, collar_row.Z, 0, survey_df, 1)

compute_trajectory(collar_row, survey_df) ==
    <<[x |-> collar_row.X, y |-> collar_row.Y, z |-> collar_row.Z, depth |-> 0]>>
    \o TrajectoryFrom(collar_row.X, collar_row.Y, collar_row.Z, 0, survey_df, 1)

---------------------------------------------------------------------------
(* 3) Composites                                                           *)

\* insert a row after every row whose FROM is not larger: a stable sort
RECURSIVE InsertByFrom(_, _)
InsertByFrom(sorted, row) ==
    IF sorted = << >> THEN <<row>>
    ELSE IF Head(sorted).FROM <= row.FROM
         THEN <<Head(sorted)>> \o InsertByFrom(Tail(sorted), row)
         ELSE <<row>> \o sorted

RECURSIVE sort_values_FROM(_)
sort_values_FROM(df) ==
    IF df = << >> THEN << >>
    ELSE InsertByFrom(sort_values_FROM(SubSeq(df, 1, Len(df) - 1)), df[Len(df)])

\* assay_df[assay_df["ID"] == hole_id].sort_values("FROM")
AssayOfHole(assay_df, hole_id) ==
    LET OfHole(row) == row.ID = hole_id
    IN  sort_values_FROM(SelectSeq(assay_df, OfHole))

\* mutant: intervals with a missing value are not counted
WindowIntervalsPresent(assay_hole, comp_start, comp_end) ==
    LET Hits(row) ==
            row.FROM < comp_end /\ row.TO > comp_start /\ ~IsNull(row.v)
    IN  SelectSeq(assay_hole, Hits)

\* the intervals that intersect the window [comp_start, comp_end)
WindowIntervals(assay_hole, comp_start, comp_end) ==
    LET Hits(row) == row.FROM < comp_end /\ row.TO > comp_start
    IN  SelectSeq(assay_hole, Hits)

\* mutant: the top cut is not applied
TopCutIgnored(v, top_cut) == v

\* the value of a row after the top cut; the row's value is present
TopCut(v, top_cut) ==
    IF ~IsNull(top_cut) /\ v > top_cut[1] THEN top_cut[1] ELSE v

Overlap(row, comp_start, comp_end) ==
    Min(row.TO, comp_end) - Max(row.FROM, comp_start)

\* <<total, weight>> accumulated over the rows of a window
RECURSIVE WeightedSum(_, _, _, _)
WeightedSum(intervals, comp_start, comp_end, top_cut) ==
    IF intervals = << >> THEN <<0, 0>>
    ELSE LET row == Head(intervals)
             rest == WeightedSum(Tail(intervals), comp_start, comp_end, top_cut)
             overlap == Overlap(row, comp_start, comp_end)
         IN  IF IsNull(row.v) \/ overlap <= 0 THEN rest
             ELSE <<TopCut(row.v[1], top_cut) * overlap + rest[1],
                    overlap + rest[2]>>

\* mutant: a window without weight gets 0 instead of None
WindowValueZero(intervals, comp_start, comp_end, top_cut) ==
    LET tw == WeightedSum(intervals, comp_start, comp_end, top_cut)
    IN  IF tw[2] > 0 THEN Rat(tw[1], tw[2]) ELSE <<0, 1>>

WindowValue(intervals, comp_start, comp_end, top_cut) ==
    LET tw == WeightedSum(intervals, comp_start, comp_end, top_cut)
    IN  IF tw[2] > 0 THEN Rat(tw[1], tw[2]) ELSE Null

\* min(traj, key=lambda p: abs(p["depth"] - mid_depth)): the first point at
\* the least distance; twice the distance is compared, mid_depth = sum2 / 2
RECURSIVE NearestFrom(_, _, _, _)
\* mutant: a later point at the same distance replaces the best one
RECURSIVE NearestFromLast(_, _, _, _)
NearestFromLast(traj, sum2, i, best) ==
    IF i > Len(traj) THEN traj[best]
    ELSE IF Abs(2 * traj[i].depth - sum2) <= Abs(2 * traj[best].depth - sum2)
         THEN NearestFromLast(traj, sum2, i + 1, i)
         ELSE NearestFromLast(traj, sum2, i + 1, best)

NearestFrom(traj, sum2, i, best) ==
    IF i > Len(traj) THEN traj[best]
    ELSE IF Abs(2 * traj[i].depth - sum2) < Abs(2 * traj[best].depth - sum2)
         THEN NearestFrom(traj, sum2, i + 1, i)
         ELSE NearestFrom(traj, sum2, i + 1, best)

NearestPoint(traj, sum2) == NearestFrom(traj, sum2, 2, 1)

\* mutant: the depth of the first point instead of the last
MaxDepthOfFirst(traj) == traj[1].depth

\* max_depth = traj[-1]["depth"]
MaxDepthOf(traj) == traj[Len(traj)].depth

\* mutant: the walk goes on while comp_start <= max_depth
WindowOpenInclusive(start, max_depth) == start <= max_depth

\* the loop condition of the window walk
WindowOpen(start, max_depth) == start < max_depth

\* the record of one window, or nothing when too few intervals intersect it
WindowRecord(hole, assay_hole, comp_start, length, top_cut, min_samples) ==
    LET comp_end == comp_start + length
        intervals == WindowIntervals(assay_hole, comp_start, comp_end)
        xyz == NearestPoint(hole.trajectory, comp_start + comp_end)
    IN  IF Len(intervals) < min_samples THEN << >>
        ELSE <<[hole_id |-> hole.hole_id,
                from |-> comp_start,
                to |-> comp_end,
                value |-> WindowValue(intervals, comp_start, comp_end, top_cut),
                x |-> xyz.x, y |-> xyz.y, z |-> xyz.z,
                mid_depth |-> Rat(comp_start + comp_end, 2)]>>

\* while comp_start < max_depth
RECURSIVE WindowWalk(_, _, _, _, _, _)
WindowWalk(hole, assay_hole, comp_start, length, top_cut, min_samples) ==
    IF WindowOpen(comp_start, MaxDepthOf(hole.trajectory))
        THEN WindowRecord(hole, assay_hole, comp_start, length, top_cut, min_samples)
             \o WindowWalk(hole, assay_hole, comp_start + length, length,
                           top_cut, min_samples)
        ELSE << >>

RECURSIVE build_composites_from(_, _, _, _, _, _)
build_composites_from(drillholes, assay_df, length, top_cut, min_samples, h) ==
    IF h > Len(drillholes) THEN << >>
    ELSE WindowWalk(drillholes[h], AssayOfHole(assay_df, drillholes[h].hole_id),
                    0, length, top_cut, min_samples)
         \o build_composites_from(drillholes, assay_df, length, top_cut,
                                  min_samples, h + 1)

build_composites(drillholes, assay_df, length, top_cut, min_samples) ==
    build_composites_from(drillholes, assay_df, length, top_cut, min_samples, 1)

---------------------------------------------------------------------------
(* 5b) Samples interpolated along the trajectory                           *)

\* insert a point after every point that is not deeper: a stable sort
RECURSIVE InsertByDepth(_, _)
InsertByDepth(sorted, p) ==
    IF sorted = << >> THEN <<p>>
    ELSE IF Head(sorted).depth <= p.depth
         THEN <<Head(sorted)>> \o InsertByDepth(Tail(sorted), p)
         ELSE <<p>> \o sorted

\* sorted(traj, key=lambda p: p["depth"])
RECURSIVE sorted_by_depth(_)
sorted_by_depth(traj) ==
    IF traj = << >> THEN << >>
    ELSE InsertByDepth(sorted_by_depth(SubSeq(traj, 1, Len(traj) - 1)),
                       traj[Len(traj)])

\* the first i >= from with d1 <= mid <= d2 for the points i and i+1, or 0;
\* mid = mid2 / 2
RECURSIVE StraddlingFrom(_, _, _)
StraddlingFrom(traj_sorted, mid2, from) ==
    IF from > Len(traj_sorted) - 1 THEN 0
    ELSE IF 2 * traj_sorted[from].depth <= mid2
            /\ mid2 <= 2 * traj_sorted[from + 1].depth
         THEN from
         ELSE StraddlingFrom(traj_sorted, mid2, from + 1)

StraddlingSegment(traj_sorted, mid2) == StraddlingFrom(traj_sorted, mid2, 1)

\* t = (mid - d1) / (d2 - d1) divides by zero
DividesByZero(traj_sorted, mid2) ==
    LET i == StraddlingSegment(traj_sorted, mid2)
    IN  i # 0 /\ traj_sorted[i + 1].depth = traj_sorted[i].depth

\* a + t * (b - a) with t = num / den
Interpolate(a, b, num, den) == Rat(a * den + num * (b - a), den)

\* mutant: never interpolated, always the nearest point
SamplePointNearest(traj_sorted, mid2) ==
    LET p == NearestPoint(traj_sorted, mid2)
    IN  [x |-> <<p.x, 1>>, y |-> <<p.y, 1>>, z |-> <<p.z, 1>>]

\* the position of a sample at depth mid2 / 2; no division by zero
SamplePoint(traj_sorted, mid2) ==
    LET i == StraddlingSegment(traj_sorted, mid2)
    IN  IF i # 0
        THEN LET p == traj_sorted[i]
                 q == traj_sorted[i + 1]
                 num == mid2 - 2 * p.depth
                 den == 2 * (q.depth - p.depth)
             IN  [x |-> Interpolate(p.x, q.x, num, den),
                  y |-> Interpolate(p.y, q.y, num, den),
                  z |-> Interpolate(p.z, q.z, num, den)]
        ELSE LET p == NearestPoint(traj_sorted, mid2)
             IN  [x |-> <<p.x, 1>>, y |-> <<p.y, 1>>, z |-> <<p.z, 1>>]

\* mutant: rows with a missing value are kept, with value 0
ValuedRowsAll(ah) == [i \in 1..Len(ah) |-> IF IsNull(ah[i].v)
                                            THEN [ah[i] EXCEPT !.v = <<0>>]
                                            ELSE ah[i]]

\* the rows that pass "if pd.isna(v): continue"
ValuedRows(ah) ==
    LET HasValue(row) == ~IsNull(row.v)
    IN  SelectSeq(ah, HasValue)

SampleOfRow(hole_id, traj_sorted, row, top_cut) ==
    LET xyz == SamplePoint(traj_sorted, row.FROM + row.TO)
    IN  [hole_id |-> hole_id,
         from |-> row.FROM,
         to |-> row.TO,
         mid_depth |-> Rat(row.FROM + row.TO, 2),
         value |-> <<TopCut(row.v[1], top_cut), 1>>,
         x |-> xyz.x, y |-> xyz.y, z |-> xyz.z]

SamplesOfHole(hole, assay_df, top_cut) ==
    LET traj_sorted == sorted_by_depth(hole.trajectory)
        ah == ValuedRows(AssayOfHole(assay_df, hole.hole_id))
    IN  [i \in 1..Len(ah) |-> SampleOfRow(hole.hole_id, traj_sorted, ah[i], top_cut)]

\* some row with a value makes the interpolation divide by zero
HoleRaises(hole, assay_df) ==
    LET traj_sorted == sorted_by_depth(hole.trajectory)
        ah == ValuedRows(AssayOfHole(assay_df, hole.hole_id))
    IN  \E i \in 1..Len(ah) : DividesByZero(traj_sorted, ah[i].FROM + ah[i].TO)

build_samples_raises(drillholes, assay_df) ==
    \E h \in 1..Len(drillholes) : HoleRaises(drillholes[h], assay_df)

RECURSIVE build_samples_from(_, _, _, _)
build_samples_from(drillholes, assay_df, top_cut, h) ==
    IF h > Len(drillholes) THEN << >>
    ELSE SamplesOfHole(drillholes[h], assay_df, top_cut)
         \o build_samples_from(drillholes, assay_df, top_cut, h + 1)

build_samples_from_assay(drillholes, assay_df, top_cut) ==
    build_samples_from(drillholes, assay_df, top_cut, 1)

---------------------------------------------------------------------------
(* 6) Kriging                                                              *)

MAX_NEIGH == 12

SEARCH_RADIUS == 100

\* 0.05
NUGGET == <<5, 100>>

SILL == 1

RANGE == 120

\* mutant: 2e-6 on the diagonal
EPSILON_Doubled == <<2, 1000000>>

\* 1e-6, added to the diagonal of the kriging matrix
EPSILON == <<1, 1000000>>

\* The kriging system is written in units of 1 / Scale, in which NUGGET,
\* EPSILON and spherical(h) at every whole h are whole numbers.
Scale == 2 * RANGE * RANGE * RANGE * 125

Units(q) == (Scale \div q[2]) * q[1]

\* vs = vs[~np.isnan(vs)], and xs, ys, zs with it
ValidPoints(comps) == SelectSeq(comps, LAMBDA c : ~IsNull(c.value))

\* square of the Euclidean distance
Dist2(p, q) ==
    (p.x - q.x) * (p.x - q.x) + (p.y - q.y) * (p.y - q.y)
    + (p.z - q.z) * (p.z - q.z)

\* np.sqrt of a square within RANGE; the inputs keep these distances whole
Root(h2) == CHOOSE r \in 0..RANGE : r * r = h2

\* spherical(h) in units, from the square of h
spherical(h2) ==
    IF h2 <= RANGE * RANGE
    THEN LET h == Root(h2)
         IN  Units(NUGGET) + SILL * (3 * h * RANGE * RANGE - h * h * h) * 125
    ELSE Units(NUGGET) + SILL * Scale

\* mutant: every point is a neighbour, however far
query_ball_point_Unbounded(points, b) == 1..Len(points)

\* tree.query_ball_point([bx, by, bz], SEARCH_RADIUS), as a set of indices
query_ball_point(points, b) ==
    {i \in 1..Len(points) : Dist2(points[i], b) <= SEARCH_RADIUS * SEARCH_RADIUS}

\* mutant: any MAX_NEIGH of the indices found, without the argsort
NearestSetsUnsorted(points, b, found) ==
    {S \in SUBSET found : Cardinality(S) = MAX_NEIGH}

\* idx[np.argsort(dists)[:MAX_NEIGH]]: the sets of MAX_NEIGH nearest indices
NearestSets(points, b, found) ==
    {S \in SUBSET found :
        /\ Cardinality(S) = MAX_NEIGH
        /\ \A i \in S : \A j \in found \ S :
               Dist2(points[i], b) <= Dist2(points[j], b)}

\* the index sets that take part in the estimate of block b
Selections(points, b) ==
    LET found == query_ball_point(points, b)
    IN  IF Cardinality(found) > MAX_NEIGH THEN NearestSets(points, b, found)
        ELSE {found}

\* the indices that can be idx[0]: any one as the tree returns them, one
\* of the nearest after the argsort
Firsts(points, b, S) ==
    IF Cardinality(query_ball_point(points, b)) > MAX_NEIGH
    THEN {i \in S : \A j \in S : Dist2(points[i], b) <= Dist2(points[j], b)}
    ELSE S

RECURSIVE Ascending(_)
Ascending(S) ==
    IF S = {} THEN << >>
    ELSE LET m == CHOOSE i \in S : \A j \in S : i <= j
         IN  <<m>> \o Ascending(S \ {m})

\* idx as an array that starts with first
IdxFrom(first, S) == <<first>> \o Ascending(S \ {first})

\* P after P += np.eye(n + 1) * 1e-6, in units
KrigingMatrix(points, sel) ==
    LET n == Len(sel)
    IN  [i \in 1..(n + 1) |-> [j \in 1..(n + 1) |->
            BigOfInt((IF i <= n /\ j <= n
                      THEN spherical(Dist2(points[sel[i]], points[sel[j]]))
                      ELSE IF i = n + 1 /\ j = n + 1 THEN 0
                      ELSE Scale)
                     + (IF i = j THEN Units(EPSILON) ELSE 0))]]

\* k, in units
KrigingVector(points, sel, b) ==
    [i \in 1..(Len(sel) + 1) |->
        BigOfInt(IF i <= Len(sel) THEN spherical(Dist2(points[sel[i]], b))
                 ELSE Scale)]

\* lam = np.linalg.solve(P, k)[:-1] by Cramer's rule, or no weights when
\* np.linalg.solve raises LinAlgError
Weights(P, k) ==
    LET d == Det(P)
    IN  IF d.s = 0 THEN << >>
        ELSE [i \in 1..(Len(P) - 1) |-> Real(Det(WithColumn(P, i, k)), d)]

\* The weight of a point does not depend on its place in idx: the system is
\* solved once with the indices S ascending, whatever idx[0] is, ...
Solve(points, S, b) ==
    Weights(KrigingMatrix(points, Ascending(S)),
            KrigingVector(points, Ascending(S), b))

\* ... and the weights are put in the order of sel
InOrderOf(sel, w) ==
    LET asc == Ascending({sel[i] : i \in 1..Len(sel)})
    IN  IF w = << >> THEN << >>
        ELSE [i \in 1..Len(sel) |->
                 w[CHOOSE j \in 1..Len(asc) : asc[j] = sel[i]]]

RealAdd(a, b) ==
    IF a.den = b.den THEN Real(BigAdd(a.num, b.num), a.den)
    ELSE
    Real(BigAdd(BigMul(a.num, b.den), BigMul(b.num, a.den)),
         BigMul(a.den, b.den))

RealZero == Real(BigZero, BigOfInt(1))

RECURSIVE RealSum(_)
RealSum(seq) ==
    IF seq = << >> THEN RealZero
    ELSE IF Len(seq) = 1 THEN seq[1]
    ELSE RealAdd(seq[1], RealSum(Tail(seq)))

RECURSIVE DenProduct(_, _)
DenProduct(points, sel) ==
    IF sel = << >> THEN 1
    ELSE points[sel[1]].value[2] * DenProduct(points, Tail(sel))

\* np.dot(lam, vs[idx]), its terms brought to one denominator
Dot(w, points, sel) ==
    LET q == DenProduct(points, sel)
    IN  RealSum([i \in 1..Len(sel) |->
            LET v == points[sel[i]].value
            IN  Real(BigMul(BigOfInt(v[1] * (q \div v[2])), w[i].num),
                     BigMul(BigOfInt(q), w[i].den))])

\* b["value"] = v
SetValue(b, v) ==
    [f \in DOMAIN b \cup {"value"} |-> IF f = "value" THEN v ELSE b[f]]

---------------------------------------------------------------------------
(* 6b) Surface points of a DXF document                                    *)
(*                                                                         *)
(* The modelspace is a sequence of entities [type, is_3d, elevation,       *)
(* vertices]. A vertex is a point, or Null when the attribute is missing   *)
(* or malformed, so that reading it gives None or raises an exception.     *)

\* msp.query(type): the entities of one type, in the order of the document
Query(msp, type) == SelectSeq(msp, LAMBDA e : e.type = type)

\* the concatenation of a sequence of sequences
RECURSIVE Flatten(_)
Flatten(seqs) ==
    IF seqs = << >> THEN << >> ELSE Head(seqs) \o Flatten(Tail(seqs))

\* float(e.dxf.elevation) if e.dxf.elevation is not None else 0.0
Elevation(e) == IF IsNull(e.elevation) THEN 0 ELSE e.elevation[1]

\* z = float(v[2]) if len(v) > 2 else 0.0
ControlPoint(v) ==
    [x |-> v.x, y |-> v.y, z |-> IF "z" \in DOMAIN v THEN v.z ELSE 0]

\* the points appended for one entity by the loop of its type
EntityPoints(e) ==
    IF e.type = "LWPOLYLINE"
    THEN [i \in 1..Len(e.vertices) |->
             [x |-> e.vertices[i].x, y |-> e.vertices[i].y, z |-> Elevation(e)]]
    ELSE IF e.type = "POLYLINE"
    THEN IF e.is_3d THEN e.vertices ELSE << >>
    ELSE IF e.type = "3DFACE"
    THEN SelectSeq(e.vertices, LAMBDA v : ~IsNull(v))
    ELSE IF e.type = "SPLINE"
    THEN [i \in 1..Len(e.vertices) |-> ControlPoint(e.vertices[i])]
    ELSE e.vertices

\* the loop of the entity's type reads a vertex outside a try block
EntityRaises(e) ==
    /\ e.type # "3DFACE"
    /\ e.type = "POLYLINE" => e.is_3d
    /\ \E i \in 1..Len(e.vertices) : IsNull(e.vertices[i])

load_dxf_raises(msp) == \E i \in 1..Len(msp) : EntityRaises(msp[i])

\* the six loops, one entity type after the other; no exception
load_dxf_surface(msp) ==
    Flatten([t \in 1..6 |->
        LET type == <<"LWPOLYLINE", "POLYLINE", "3DFACE", "MESH", "LINE",
                      "SPLINE">>[t]
            found == Query(msp, type)
        IN  Flatten([i \in 1..Len(found) |-> EntityPoints(found[i])])])

---------------------------------------------------------------------------
(* 7) Bounding box, block grid and the sentinel of the API                 *)

\* d[key] = val
SetKey(d, key, val) ==
    [f \in DOMAIN d \cup {key} |-> IF f = key THEN val ELSE d[f]]

\* del d[key]
DelKey(d, key) == [f \in DOMAIN d \ {key} |-> d[f]]

\* A key of a project state or document that holds None holds << >> here
\* and is named in the set under "nones": {} and [] are << >> without it.
Nones(doc) == IF "nones" \in DOMAIN doc THEN doc.nones ELSE {}

\* doc[key] is None
IsNone(doc, key) == key \in DOMAIN doc /\ key \in Nones(doc)

\* doc.get(key) is None: the key is missing or holds None
GetIsNone(doc, key) == key \notin DOMAIN doc \/ key \in Nones(doc)

\* doc with the keys of the set keys holding None, and no other
WithNones(doc, keys) ==
    IF keys = {} THEN [f \in DOMAIN doc \ {"nones"} |-> doc[f]]
    ELSE SetKey(doc, "nones", keys)

\* doc[key] = val, for a val that is not None
Assign(doc, key, val) ==
    WithNones(SetKey(doc, key, val), Nones(doc) \ {key})

\* doc[key] = None
AssignNone(doc, key) ==
    WithNones(SetKey(doc, key, << >>), Nones(doc) \cup {key})

MinOf(S) == CHOOSE m \in S : \A n \in S : m <= n

MaxOf(S) == CHOOSE m \in S : \A n \in S : m >= n

\* xs, ys, zs: the points of every trajectory and of the surface
BboxPoints(drillholes, surface_points) ==
    UNION {{drillholes[h].trajectory[i] : i \in 1..Len(drillholes[h].trajectory)} :
              h \in 1..Len(drillholes)}
    \cup {surface_points[i] : i \in 1..Len(surface_points)}

\* mutant: without a point, a box around the origin
auto_detect_bbox_Origin(drillholes, surface_points, padding) ==
    LET pts == BboxPoints(drillholes, surface_points)
                   \cup {[x |-> 0, y |-> 0, z |-> 0]}
    IN  [minX |-> MinOf({p.x : p \in pts}) - padding,
         maxX |-> MaxOf({p.x : p \in pts}) + padding,
         minY |-> MinOf({p.y : p \in pts}) - padding,
         maxY |-> MaxOf({p.y : p \in pts}) + padding,
         minZ |-> MinOf({p.z : p \in pts}) - padding,
         maxZ |-> MaxOf({p.z : p \in pts}) + padding]

\* the padded box, or Null where the code raises ValueError
auto_detect_bbox(drillholes, surface_points, padding) ==
    LET pts == BboxPoints(drillholes, surface_points)
    IN  IF pts = {} THEN Null
        ELSE [minX |-> MinOf({p.x : p \in pts}) - padding,
              maxX |-> MaxOf({p.x : p \in pts}) + padding,
              minY |-> MinOf({p.y : p \in pts}) - padding,
              maxY |-> MaxOf({p.y : p \in pts}) + padding,
              minZ |-> MinOf({p.z : p \in pts}) - padding,
              maxZ |-> MaxOf({p.z : p \in pts}) + padding]

\* mutant: the loop goes on while x <= hi
RECURSIVE GridAxisInclusive(_, _, _)
GridAxisInclusive(lo, hi, size) ==
    IF lo <= hi
    THEN <<lo + size \div 2>> \o GridAxisInclusive(lo + size, hi, size)
    ELSE << >>

\* the centres along one axis: x = lo; while x < hi: x + size / 2; x += size
\* (the sizes of the model are even, so that size / 2 is whole)
RECURSIVE GridAxis(_, _, _)
GridAxis(lo, hi, size) ==
    IF lo < hi THEN <<lo + size \div 2>> \o GridAxis(lo + size, hi, size)
    ELSE << >>

\* the blocks of the three nested loops, x outermost and z innermost
BuildBlocks(bbox, req) ==
    LET cx == GridAxis(bbox.minX, bbox.maxX, req.block_size_x)
        cy == GridAxis(bbox.minY, bbox.maxY, req.block_size_y)
        cz == GridAxis(bbox.minZ, bbox.maxZ, req.block_size_z)
    IN  [n \in 1..(Len(cx) * Len(cy) * Len(cz)) |->
            [x |-> cx[((n - 1) \div (Len(cy) * Len(cz))) + 1],
             y |-> cy[(((n - 1) \div Len(cz)) % Len(cy)) + 1],
             z |-> cz[((n - 1) % Len(cz)) + 1],
             size_x |-> req.block_size_x,
             size_y |-> req.block_size_y,
             size_z |-> req.block_size_z,
             est |-> RealOfRat(<<-99, 1>>)]]

\* comp_name: the variable, the length and the top cut, if any, joined
CompName(req) == <<req.variable, req.composite_length, req.top_cut>>

\* mutant: a negative value is stored as it is
Sentinel_KeepNegative(v) == IF IsNull(v) THEN <<-99, 1>> ELSE v

\* a stored composite value: None, NaN and negative numbers become -99
Sentinel(v) == IF IsNull(v) \/ v[1] < 0 THEN <<-99, 1>> ELSE v

\* a stored block estimate: None and negative numbers become -99, and the
\* field "value" is deleted; the field est stands for composite_name + "_est"
StoredBlock(b) ==
    LET val == b.value
    IN  DelKey(SetKey(b, "est",
                      IF IsNull(val) \/ val.num.s < 0 THEN RealOfRat(<<-99, 1>>)
                      ELSE val),
               "value")

\* mutant: the new set is added to the sets stored before
CompositesUpdate_Adding(doc, comp_name, comps, req) ==
    LET had(key) == IF key \in DOMAIN doc THEN doc[key] ELSE << >>
    IN  SetKey(SetKey(doc, "composites",
                      SetKey(had("composites"), comp_name, comps)),
               "composite_settings",
               SetKey(had("composite_settings"), comp_name, req))

\* mutant: the block model built from the replaced set is dropped
CompositesUpdate_DroppingModel(doc, comp_name, comps, req) ==
    [f \in (DOMAIN doc \ {"block_model", "block_settings"})
            \cup {"composites", "composite_settings"} |->
        IF f \in {"composites", "composite_settings"}
        THEN [g \in {comp_name} |-> IF f = "composites" THEN comps ELSE req]
        ELSE doc[f]]

\* what generate_composites writes to the state in memory and, with $set,
\* to the document: the new set alone under its name, and its request
CompositesUpdate(doc, comp_name, comps, req) ==
    Assign(Assign(doc, "composites", [f \in {comp_name} |-> comps]),
           "composite_settings", [f \in {comp_name} |-> req])

---------------------------------------------------------------------------
(* State                                                                   *)

VARIABLES
    pc,          \* position of the running call
    args,        \* arguments of the running call
    result,      \* value returned by the call, Null before it returns
    hole_i,      \* build_composites: index of the hole being walked
    comp_start,  \* build_composites: start of the next window
    composites,  \* build_composites: records emitted so far
    blocks,      \* krige_blocks: the caller's list of blocks, changed in place
    block_i,     \* krige_blocks: index of the block being estimated
    idx,         \* krige_blocks: neighbour indices of the last block
    lam,         \* krige_blocks: weights of the last solve
    current_state,        \* main.py: the projects held in memory
    projects_collection,  \* main.py: the persisted project documents
    disk,                 \* main.py: the uploaded files, by path
    requests              \* main.py: the project requests answered so far

vars ==
    <<pc, args, result, hole_i, comp_start, composites, blocks, block_i, idx,
      lam, current_state, projects_collection, disk, requests>>

compositeVars == <<hole_i, comp_start, composites>>

krigeVars == <<blocks, block_i, idx, lam>>

apiVars == <<current_state, projects_collection, disk, requests>>

\* krige_blocks has not been called
KrigeIdle == blocks = << >> /\ block_i = 0 /\ idx = << >> /\ lam = << >>

\* the engine is called without the API
ApiIdle ==
    /\ current_state = << >>
    /\ projects_collection = << >>
    /\ disk = << >>
    /\ requests = 0

---------------------------------------------------------------------------
(* build_composites, one window of one hole at a time                      *)

CompositeLengths == {5, 10}

TopCuts == {Null, <<3>>}

MinSamples == {1, 2}

VerticalStations == {[AT |-> d, AZ |-> 0, DIP |-> 90] : d \in Depths}

Collar1 == [X |-> 0, Y |-> 0, Z |-> 100]

Collar2 == [X |-> 60, Y |-> 0, Z |-> 100]

\* hole 2 has one station
Survey2 == <<[AT |-> 10, AZ |-> 0, DIP |-> 90]>>

DrillholeSets ==
    {<<[hole_id |-> 1, trajectory |-> compute_trajectory(Collar1, s1)],
       [hole_id |-> 2, trajectory |-> compute_trajectory(Collar2, Survey2)]>> :
        s1 \in SurveysOver(VerticalStations)}

AssayIntervals == {<<0, 10>>, <<5, 10>>, <<5, 15>>}

AssayRows ==
    {[ID |-> 1, FROM |-> i[1], TO |-> i[2], v |-> v] :
        i \in AssayIntervals, v \in {Null, <<2>>, <<4>>}}
    \cup {[ID |-> 2, FROM |-> 0, TO |-> 10, v |-> <<2>>]}

AssayFrames == DistinctSeqsUpTo(AssayRows, MaxRows)

InitComposites ==
    /\ pc = "walk"
    /\ args \in [drillholes : DrillholeSets, assay_df : AssayFrames,
                  length : CompositeLengths, top_cut : TopCuts,
                  min_samples : MinSamples]
    /\ result = Null
    /\ hole_i = 1
    /\ comp_start = 0
    /\ composites = << >>
    /\ KrigeIdle
    /\ ApiIdle

CurHole == args.drillholes[hole_i]

CurMaxDepth == MaxDepthOf(CurHole.trajectory)

CurRecord ==
    WindowRecord(CurHole, AssayOfHole(args.assay_df, CurHole.hole_id),
                 comp_start, args.length, args.top_cut, args.min_samples)

\* fewer than min_samples intervals: comp_start = comp_end; continue
WindowSkip ==
    /\ pc = "walk" /\ hole_i <= Len(args.drillholes)
    /\ WindowOpen(comp_start, CurMaxDepth)
    /\ CurRecord = << >>
    /\ comp_start' = comp_start + args.length
    /\ UNCHANGED <<pc, args, result, hole_i, composites, krigeVars, apiVars>>

\* composites.append({...}); comp_start = comp_end
WindowEmit ==
    /\ pc = "walk" /\ hole_i <= Len(args.drillholes)
    /\ WindowOpen(comp_start, CurMaxDepth)
    /\ CurRecord # << >>
    /\ composites' = composites \o CurRecord
    /\ comp_start' = comp_start + args.length
    /\ UNCHANGED <<pc, args, result, hole_i, krigeVars, apiVars>>

\* the while loop of a hole ends: next hole, comp_start = 0.0
NextHole ==
    /\ pc = "walk" /\ hole_i <= Len(args.drillholes)
    /\ ~(WindowOpen(comp_start, CurMaxDepth))
    /\ hole_i' = hole_i + 1
    /\ comp_start' = 0
    /\ UNCHANGED <<pc, args, result, composites, krigeVars, apiVars>>

\* return composites
ReturnComposites ==
    /\ pc = "walk" /\ hole_i > Len(args.drillholes)
    /\ pc' = "done"
    /\ result' = composites
    /\ UNCHANGED <<args, compositeVars, krigeVars, apiVars>>

NextComposites == WindowSkip \/ WindowEmit \/ NextHole \/ ReturnComposites

SpecComposites == InitComposites /\ [][NextComposites]_vars

---------------------------------------------------------------------------
(* compute_trajectory, as one call                                         *)

TrajectoryCollars == {[X |-> 0, Y |-> 0, Z |-> 100], [X |-> 60, Y |-> -20, Z |-> 0]}

\* stations in any order of depth, towards the north or the east, with dips
\* of either sign and none
TrajectoryStations ==
    {[AT |-> d, AZ |-> az, DIP |-> dip] :
        d \in Depths, az \in {0, 90}, dip \in {-90, 0, 90}}

InitTrajectory ==
    /\ pc = "trajectory"
    /\ args \in [collar_row : TrajectoryCollars,
                  survey_df : SeqsUpTo(TrajectoryStations, MaxStations)]
    /\ result = Null
    /\ hole_i = 0
    /\ comp_start = 0
    /\ composites = << >>
    /\ KrigeIdle
    /\ ApiIdle

\* the whole call: return trajectory
ComputeTrajectory ==
    /\ pc = "trajectory"
    /\ pc' = "done"
    /\ result' = compute_trajectory(args.collar_row, args.survey_df)
    /\ UNCHANGED <<args, compositeVars, krigeVars, apiVars>>

NextTrajectory == ComputeTrajectory

SpecTrajectory == InitTrajectory /\ [][NextTrajectory]_vars

---------------------------------------------------------------------------
(* build_samples_from_assay, as one call                                   *)

Angles == {<<0, 90>>, <<90, 0>>}

\* stations that go vertically down or horizontally to the east
AllStations ==
    {[AT |-> d, AZ |-> a[1], DIP |-> a[2]] : d \in Depths, a \in Angles}

SampleDrillholeSets ==
    {<<[hole_id |-> 1, trajectory |-> compute_trajectory(Collar1, s1)],
       [hole_id |-> 2, trajectory |-> compute_trajectory(Collar2, Survey2)]>> :
        s1 \in SurveysOver(AllStations)}

InitSamples ==
    /\ pc = "call"
    /\ args \in [drillholes : SampleDrillholeSets, assay_df : AssayFrames,
                  top_cut : TopCuts]
    /\ result = Null
    /\ hole_i = 0
    /\ comp_start = 0
    /\ composites = << >>
    /\ KrigeIdle
    /\ ApiIdle

\* the whole call: the list of samples, or the ZeroDivisionError of line 497
BuildSamples ==
    /\ pc = "call"
    /\ IF build_samples_raises(args.drillholes, args.assay_df)
       THEN pc' = "raised" /\ result' = Null
       ELSE /\ pc' = "done"
            /\ result' = build_samples_from_assay(args.drillholes, args.assay_df,
                                                  args.top_cut)
    /\ UNCHANGED <<args, compositeVars, krigeVars, apiVars>>

NextSamples == BuildSamples

SpecSamples == InitSamples /\ [][NextSamples]_vars

---------------------------------------------------------------------------
(* krige_blocks, one block at a time                                       *)

MaxPoints == 3

KrigePoint(x, y, z, v) == [x |-> x, y |-> y, z |-> z, value |-> v]

\* points with different values and a missing one, at places whose
\* distances from each other and from the block centres are whole or beyond
\* RANGE; the first and the third are equally far from the first block
KrigePoints ==
    {KrigePoint(60, 0, 0, <<1, 1>>), KrigePoint(60, 0, 0, Null),
     KrigePoint(-60, 0, 0, <<3, 1>>), KrigePoint(0, 80, 0, <<5, 2>>)}

\* block centres with every place, one place and no place in reach
KrigeBlocks ==
    <<[x |-> 0, y |-> 0, z |-> 0], [x |-> 160, y |-> 0, z |-> 0],
      [x |-> 300, y |-> 0, z |-> 0]>>

InitKrige ==
    /\ pc = "krige"
    /\ args \in [composites : SeqsUpTo(KrigePoints, MaxPoints),
                  blocks : {KrigeBlocks}]
    /\ result = Null
    /\ hole_i = 0
    /\ comp_start = 0
    /\ composites = << >>
    /\ blocks = args.blocks
    /\ block_i = 1
    /\ idx = << >>
    /\ lam = << >>
    /\ ApiIdle

CurPoints == ValidPoints(args.composites)

CurBlock == blocks[block_i]

\* len(xs) < 1: every block gets None and the list is returned
KrigeNoValid ==
    /\ pc = "krige" /\ Len(CurPoints) < 1
    /\ blocks' = [i \in 1..Len(blocks) |-> SetValue(blocks[i], Null)]
    /\ pc' = "krige_done"
    /\ result' = blocks'
    /\ UNCHANGED <<args, compositeVars, block_i, idx, lam, apiVars>>

\* len(idx) == 0: b["value"] = None
KrigeBlockNone ==
    /\ pc = "krige" /\ Len(CurPoints) >= 1 /\ block_i <= Len(blocks)
    /\ query_ball_point(CurPoints, CurBlock) = {}
    /\ blocks' = [blocks EXCEPT ![block_i] = SetValue(@, Null)]
    /\ block_i' = block_i + 1
    /\ idx' = << >>
    /\ lam' = << >>
    /\ UNCHANGED <<pc, args, result, compositeVars, apiVars>>

\* len(idx) < 3: b["value"] = float(vs[idx][0])
KrigeBlockNearest ==
    /\ pc = "krige" /\ Len(CurPoints) >= 1 /\ block_i <= Len(blocks)
    /\ LET found == query_ball_point(CurPoints, CurBlock)
       IN  /\ found # {} /\ Cardinality(found) < 3
           /\ \E first \in found :
                 /\ idx' = IdxFrom(first, found)
                 /\ blocks' = [blocks EXCEPT ![block_i] =
                        SetValue(@, RealOfRat(CurPoints[first].value))]
    /\ block_i' = block_i + 1
    /\ lam' = << >>
    /\ UNCHANGED <<pc, args, result, compositeVars, apiVars>>

\* three neighbours or more: the solve, or its fallback on LinAlgError
KrigeBlockSolve ==
    /\ pc = "krige" /\ Len(CurPoints) >= 1 /\ block_i <= Len(blocks)
    /\ Cardinality(query_ball_point(CurPoints, CurBlock)) >= 3
    /\ \E S \in Selections(CurPoints, CurBlock) :
        \E solved \in {Solve(CurPoints, S, CurBlock)} :
            \E first \in Firsts(CurPoints, CurBlock, S) :
                LET sel == IdxFrom(first, S)
                    w == InOrderOf(sel, solved)
                IN  /\ idx' = sel
                    /\ lam' = w
                    /\ blocks' = [blocks EXCEPT ![block_i] = SetValue(@,
                           IF w = << >> THEN RealOfRat(CurPoints[first].value)
                           ELSE Dot(w, CurPoints, sel))]
    /\ block_i' = block_i + 1
    /\ UNCHANGED <<pc, args, result, compositeVars, apiVars>>

\* return blocks
KrigeReturn ==
    /\ pc = "krige" /\ Len(CurPoints) >= 1 /\ block_i > Len(blocks)
    /\ pc' = "krige_done"
    /\ result' = blocks
    /\ UNCHANGED <<args, compositeVars, krigeVars, apiVars>>

NextKrige ==
    \/ KrigeNoValid \/ KrigeBlockNone \/ KrigeBlockNearest \/ KrigeBlockSolve
    \/ KrigeReturn

SpecKrige == InitKrige /\ [][NextKrige]_vars

---------------------------------------------------------------------------
(* krige_blocks with more than MAX_NEIGH points in reach: the neighbours   *)
(* of one block at a time. The system is not solved here (SpecKrige solves *)
(* systems of a few points): the estimate of a block is kept as the array  *)
(* idx that lines 390-428 read xs, ys, zs and vs through, with the outcome *)
(* of np.linalg.solve. LAPACK raises LinAlgError on a pivot that is zero   *)
(* in floating point, e.g. for two rows made equal by rounding; whether it *)
(* does is left open here.                                                 *)

MaxExtra == 2

\* twelve points on the x axis, two at each of six distances from the origin
CrowdRing ==
    [i \in 1..12 |->
        KrigePoint((IF i % 2 = 0 THEN 10 ELSE -10) * ((i + 1) \div 2), 0, 0,
                   <<i, 1>>)]

\* nearer than the ring, as far as its farthest pair, farther but in reach,
\* out of reach, and without a value
CrowdExtras ==
    {KrigePoint(0, 5, 0, <<20, 1>>), KrigePoint(0, 60, 0, <<21, 1>>),
     KrigePoint(0, 90, 0, <<22, 1>>), KrigePoint(0, 150, 0, <<23, 1>>),
     KrigePoint(0, 5, 0, Null)}

\* the extra points come between the two halves of the ring
CrowdComposites ==
    {SubSeq(CrowdRing, 1, 6) \o extra \o SubSeq(CrowdRing, 7, 12) :
        extra \in SeqsUpTo(CrowdExtras, MaxExtra)}

\* block centres with the whole ring, a part of it, one point at most and
\* no point in reach
CrowdBlocks ==
    <<[x |-> 0, y |-> 0, z |-> 0], [x |-> -50, y |-> 0, z |-> 0],
      [x |-> 0, y |-> 250, z |-> 0], [x |-> 0, y |-> 400, z |-> 0]>>

InitCrowd ==
    /\ pc = "crowd"
    /\ args \in [composites : CrowdComposites, blocks : {CrowdBlocks}]
    /\ result = Null
    /\ hole_i = 0
    /\ comp_start = 0
    /\ composites = << >>
    /\ blocks = args.blocks
    /\ block_i = 1
    /\ idx = << >>
    /\ lam = << >>
    /\ ApiIdle

\* len(idx) == 0: b["value"] = None
CrowdBlockNone ==
    /\ pc = "crowd" /\ block_i <= Len(blocks)
    /\ query_ball_point(CurPoints, CurBlock) = {}
    /\ blocks' = [blocks EXCEPT ![block_i] = SetValue(@, Null)]
    /\ block_i' = block_i + 1
    /\ idx' = << >>
    /\ UNCHANGED <<pc, args, result, compositeVars, lam, apiVars>>

\* len(idx) < 3: b["value"] = float(vs[idx][0])
CrowdBlockNearest ==
    /\ pc = "crowd" /\ block_i <= Len(blocks)
    /\ LET found == query_ball_point(CurPoints, CurBlock)
       IN  /\ found # {} /\ Cardinality(found) < 3
           /\ \E first \in found :
                 /\ idx' = IdxFrom(first, found)
                 /\ blocks' = [blocks EXCEPT ![block_i] =
                        SetValue(@, RealOfRat(CurPoints[first].value))]
    /\ block_i' = block_i + 1
    /\ UNCHANGED <<pc, args, result, compositeVars, lam, apiVars>>

\* three neighbours or more: idx, truncated to the MAX_NEIGH nearest when
\* there are more; then np.dot(lam, vs[idx]) when the solve succeeds,
\* float(vs[idx][0]) when it raises LinAlgError
CrowdBlockSelect ==
    /\ pc = "crowd" /\ block_i <= Len(blocks)
    /\ Cardinality(query_ball_point(CurPoints, CurBlock)) >= 3
    /\ \E S \in Selections(CurPoints, CurBlock) :
           \E first \in Firsts(CurPoints, CurBlock, S) :
               \E solved \in BOOLEAN :
                   /\ idx' = IdxFrom(first, S)
                   /\ blocks' = [blocks EXCEPT ![block_i] =
                          SetValue(@, [idx |-> idx', solved |-> solved])]
    /\ block_i' = block_i + 1
    /\ UNCHANGED <<pc, args, result, compositeVars, lam, apiVars>>

\* return blocks
CrowdReturn ==
    /\ pc = "crowd" /\ block_i > Len(blocks)
    /\ pc' = "crowd_done"
    /\ result' = blocks
    /\ UNCHANGED <<args, compositeVars, krigeVars, apiVars>>

NextCrowd ==
    CrowdBlockNone \/ CrowdBlockNearest \/ CrowdBlockSelect \/ CrowdReturn

SpecCrowd == InitCrowd /\ [][NextCrowd]_vars

---------------------------------------------------------------------------
(* The bounding box and the grid of POST /block-model, on their own: the   *)
(* call of auto_detect_bbox and the three nested loops                     *)

MaxSurface == 2

\* no hole, a vertical hole, a hole that goes east
GridDrillholes ==
    {<< >>,
     <<[hole_id |-> 1,
        trajectory |-> compute_trajectory(Collar1,
                           <<[AT |-> 15, AZ |-> 0, DIP |-> 90]>>)]>>,
     <<[hole_id |-> 1,
        trajectory |-> compute_trajectory(Collar1,
                           <<[AT |-> 5, AZ |-> 90, DIP |-> 0]>>)]>>}

SurfacePoints ==
    {[x |-> 0, y |-> 0, z |-> 100], [x |-> 57, y |-> 0, z |-> 100],
     [x |-> 0, y |-> 30, z |-> 110]}

\* None, the empty list, or a list of points
GridSurfaces == SeqsUpTo(SurfacePoints, MaxSurface)

GridRequests ==
    [block_size_x : {20, 50}, block_size_y : {20}, block_size_z : {10, 20},
     padding : {0, 20}]

InitGrid ==
    /\ pc = "bbox"
    /\ args \in [drillholes : GridDrillholes, surface_points : GridSurfaces,
                  req : GridRequests]
    /\ result = Null
    /\ hole_i = 0
    /\ comp_start = 0
    /\ composites = << >>
    /\ KrigeIdle
    /\ ApiIdle

\* engine.auto_detect_bbox(...): the padded box, or ValueError
DetectBbox ==
    /\ pc = "bbox"
    /\ LET bbox == auto_detect_bbox(args.drillholes, args.surface_points,
                                    args.req.padding)
       IN  /\ result' = bbox
           /\ pc' = IF IsNull(bbox) THEN "raised" ELSE "grid"
    /\ UNCHANGED <<args, compositeVars, krigeVars, apiVars>>

\* the three nested while loops
BuildGrid ==
    /\ pc = "grid"
    /\ blocks' = BuildBlocks(result, args.req)
    /\ pc' = "grid_done"
    /\ UNCHANGED <<args, result, compositeVars, block_i, idx, lam, apiVars>>

NextGrid == DetectBbox \/ BuildGrid

SpecGrid == InitGrid /\ [][NextGrid]_vars

---------------------------------------------------------------------------
(* load_dxf_surface, as one call                                           *)

MaxEntities == 2

DxfEntity(type, is_3d, elevation, vertices) ==
    [type |-> type, is_3d |-> is_3d, elevation |-> elevation,
     vertices |-> vertices]

DxfP1 == [x |-> 0, y |-> 0, z |-> 100]

DxfP2 == [x |-> 57, y |-> 30, z |-> 110]

\* entities of every type, whole and with a vertex that cannot be read
DxfEntities ==
    {DxfEntity("LWPOLYLINE", FALSE, Null, <<DxfP1>>),
     DxfEntity("LWPOLYLINE", FALSE, <<50>>, <<DxfP1, DxfP2>>),
     DxfEntity("LWPOLYLINE", FALSE, Null, <<Null>>),
     DxfEntity("POLYLINE", TRUE, Null, <<DxfP1, DxfP2>>),
     DxfEntity("POLYLINE", FALSE, Null, <<DxfP2>>),
     DxfEntity("POLYLINE", TRUE, Null, <<DxfP1, Null>>),
     DxfEntity("3DFACE", TRUE, Null, <<DxfP1, DxfP2>>),
     DxfEntity("3DFACE", TRUE, Null, <<DxfP2, Null>>),
     DxfEntity("MESH", TRUE, Null, <<DxfP2>>),
     DxfEntity("MESH", TRUE, Null, <<Null>>),
     DxfEntity("LINE", TRUE, Null, <<DxfP1, DxfP2>>),
     DxfEntity("LINE", TRUE, Null, <<DxfP1, Null>>),
     DxfEntity("SPLINE", TRUE, Null, <<DxfP1>>),
     DxfEntity("SPLINE", TRUE, Null, <<[x |-> 5, y |-> 6]>>),
     DxfEntity("SPLINE", TRUE, Null, <<Null>>)}

InitDxf ==
    /\ pc = "dxf"
    /\ args \in [msp : SeqsUpTo(DxfEntities, MaxEntities)]
    /\ result = Null
    /\ hole_i = 0
    /\ comp_start = 0
    /\ composites = << >>
    /\ KrigeIdle
    /\ ApiIdle

\* the whole call: the list of points, or the exception of an entity
LoadDxfSurface ==
    /\ pc = "dxf"
    /\ IF load_dxf_raises(args.msp)
       THEN pc' = "raised" /\ result' = Null
       ELSE pc' = "done" /\ result' = load_dxf_surface(args.msp)
    /\ UNCHANGED <<args, compositeVars, krigeVars, apiVars>>

NextDxf == LoadDxfSurface

SpecDxf == InitDxf /\ [][NextDxf]_vars

---------------------------------------------------------------------------
(* The API: POST /composites and POST /block-model on uploaded projects    *)

\* an uploaded project and an identifier of no project
ProjectIds == {"p1", "p2"}

ApiSurveys ==
    {<<[AT |-> 15, AZ |-> 0, DIP |-> 90]>>,
     <<[AT |-> 5, AZ |-> 0, DIP |-> 90], [AT |-> 15, AZ |-> 0, DIP |-> 90]>>}

ApiDrillholes ==
    {<<[hole_id |-> 1, trajectory |-> compute_trajectory(Collar1, s1)]>> :
        s1 \in ApiSurveys}

ApiAssayRows ==
    {[ID |-> 1, FROM |-> i[1], TO |-> i[2], v |-> v] :
        i \in {<<0, 10>>, <<5, 15>>}, v \in {Null, <<4>>}}

ApiAssayFrames == DistinctSeqsUpTo(ApiAssayRows, MaxRows)

\* "v" is the column of the assay file, "w" is no column of it
CompositeRequests ==
    [variable : {"v", "w"}, composite_length : CompositeLengths,
     top_cut : {Null}, min_samples : {1}]

\* Blocks twice the padding wide lie around the vertical hole, so that every
\* block centre is on its line and a whole distance from every composite;
\* the padding puts the deepest and the middle block within SEARCH_RADIUS of
\* the composites and the highest block beyond it.
BlockModelRequests ==
    [composite_name : {CompName(r) : r \in CompositeRequests},
     block_size_x : {220}, block_size_y : {220}, block_size_z : {110},
     padding : {110}]

\* what upload_files stores: one hole, or no hole (a collar file without
\* rows) alone or with a surface, of no point or of one; "surface_dxf" is
\* set when a DXF came
ApiProjects ==
    {[files |-> [assay_path |-> "p1/assay.csv"], drillholes |-> dh] :
        dh \in ApiDrillholes \cup {<< >>}}
    \cup {[files |-> [assay_path |-> "p1/assay.csv"], drillholes |-> << >>,
           surface_dxf |-> points] :
              points \in {<< >>, <<[x |-> 0, y |-> 0, z |-> 100]>>}}

\* the state upload_files leaves: the project in memory and its document
InitApi ==
    /\ pc = "idle"
    /\ args = << >>
    /\ result = Null
    /\ hole_i = 0
    /\ comp_start = 0
    /\ composites = << >>
    /\ KrigeIdle
    /\ \E project \in ApiProjects, assay_df \in ApiAssayFrames :
          /\ disk = [f \in {"p1/assay.csv"} |-> assay_df]
          /\ requests = 0
          /\ current_state = [q \in {"p1"} |-> project]
          /\ projects_collection = [q \in {"p1"} |-> project]

\* doc.get(key, default)
DocGet(doc, key, default) == IF key \in DOMAIN doc THEN doc[key] ELSE default

\* the state generate_composites restores from the persisted document
RestoredState(doc) ==
    WithNones([files |-> DocGet(doc, "files", << >>),
               nombre_proyecto |-> DocGet(doc, "nombre_proyecto", ""),
               drillholes |-> DocGet(doc, "drillholes", << >>),
               composites |-> DocGet(doc, "composites", << >>),
               composite_settings |-> DocGet(doc, "composite_settings", << >>),
               block_model |-> DocGet(doc, "block_model", << >>),
               block_settings |-> DocGet(doc, "block_settings", << >>),
               surface_dxf |-> DocGet(doc, "surface_dxf", << >>)],
              Nones(doc))

Error(text) == [ok |-> FALSE, error |-> text]

\* the composites of build_composites with None, NaN and negatives as -99
StoredComposites(comps) ==
    [i \in 1..Len(comps) |-> [comps[i] EXCEPT !.value = Sentinel(@)]]

\* POST /composites: generate_composites as one step
PostComposites ==
    /\ pc = "idle"
    /\ \E req \in CompositeRequests, project_id \in ProjectIds :
        LET in_memory == project_id \in DOMAIN current_state
            in_mongo == project_id \in DOMAIN projects_collection
            restored ==
                IF in_memory THEN current_state
                ELSE SetKey(current_state, project_id,
                            RestoredState(projects_collection[project_id]))
        IN  IF ~in_memory /\ ~in_mongo
            THEN /\ result' = Error("Proyecto no encontrado.")
                 /\ UNCHANGED <<current_state, projects_collection>>
            ELSE
            LET state == restored[project_id]
                comp_name == CompName(req)
                comps == StoredComposites(
                             build_composites(state.drillholes,
                                              disk[state.files.assay_path],
                                              req.composite_length, req.top_cut,
                                              req.min_samples))
            IN  IF "drillholes" \notin DOMAIN state
                THEN /\ result' = Error("Primero genera modelo para ese proyecto.")
                     /\ current_state' = restored
                     /\ UNCHANGED projects_collection
                ELSE IF state.files.assay_path \notin DOMAIN disk
                THEN /\ result' = [raised |-> "FileNotFoundError"]
                     /\ current_state' = restored
                     /\ UNCHANGED projects_collection
                ELSE IF req.variable # "v"
                THEN /\ result' = Error("La variable no existe en assay.csv")
                     /\ current_state' = restored
                     /\ UNCHANGED projects_collection
                ELSE /\ current_state' =
                            SetKey(restored, project_id,
                                   CompositesUpdate(state, comp_name, comps, req))
                     /\ projects_collection' =
                            IF in_mongo
                            THEN SetKey(projects_collection, project_id,
                                     CompositesUpdate(
                                         projects_collection[project_id],
                                         comp_name, comps, req))
                            ELSE projects_collection
                     /\ result' = [ok |-> TRUE, name |-> comp_name,
                                   total |-> Len(comps),
                                   available_composites |-> {comp_name}]
    /\ UNCHANGED <<pc, args, compositeVars, krigeVars, disk, requests>>

\* POST /block-model up to the call of krige_blocks: the checks, the box and
\* the grid
PostBlockModel ==
    /\ pc = "idle"
    /\ \E req \in BlockModelRequests, project_id \in ProjectIds :
        LET state == current_state[project_id]
            bbox == auto_detect_bbox(state.drillholes,
                                     DocGet(state, "surface_dxf", << >>),
                                     req.padding)
            grid == BuildBlocks(bbox, req)
            refuse(text) ==
                /\ result' = Error(text)
                /\ UNCHANGED <<pc, args, krigeVars>>
        IN  IF project_id \notin DOMAIN current_state
            THEN refuse("No hay estado para ese proyecto. Sube archivos primero.")
            ELSE IF "composites" \notin DOMAIN state
            THEN refuse("Primero genera composites.")
            ELSE IF IsNone(state, "composites")
            THEN /\ result' = [raised |-> "TypeError"]
                 /\ UNCHANGED <<pc, args, krigeVars>>
            ELSE IF req.composite_name \notin DOMAIN state.composites
            THEN refuse("Composite no existe.")
            ELSE IF IsNull(bbox)
            THEN /\ result' = [raised |-> "ValueError"]
                 /\ UNCHANGED <<pc, args, krigeVars>>
            ELSE /\ pc' = "krige"
                 /\ args' = [composites |-> state.composites[req.composite_name],
                             blocks |-> grid, req |-> req,
                             project_id |-> project_id, bbox |-> bbox]
                 /\ blocks' = grid
                 /\ block_i' = 1
                 /\ idx' = << >>
                 /\ lam' = << >>
                 /\ result' = Null
    /\ UNCHANGED <<compositeVars, apiVars>>

\* POST /block-model after krige_blocks: -99 for None and negatives, the
\* model and its settings stored in memory and in the document
BlockModelStore ==
    /\ pc = "krige_done"
    /\ LET project_id == args.project_id
           model == [i \in 1..Len(blocks) |-> StoredBlock(blocks[i])]
           settings == [using_composite |-> args.req.composite_name,
                        block_size_x |-> args.req.block_size_x,
                        block_size_y |-> args.req.block_size_y,
                        block_size_z |-> args.req.block_size_z,
                        padding |-> args.req.padding,
                        auto_bbox |-> args.bbox]
       IN  /\ current_state' =
                  SetKey(current_state, project_id,
                         Assign(Assign(current_state[project_id],
                                       "block_model", model),
                                "block_settings", settings))
           /\ projects_collection' =
                  IF project_id \in DOMAIN projects_collection
                  THEN SetKey(projects_collection, project_id,
                           Assign(Assign(projects_collection[project_id],
                                         "block_model", model),
                                  "block_settings", settings))
                  ELSE projects_collection
           /\ result' = [ok |-> TRUE, settings |-> settings, model |-> model]
    /\ pc' = "idle"
    /\ args' = << >>
    /\ blocks' = << >>
    /\ block_i' = 0
    /\ idx' = << >>
    /\ lam' = << >>
    /\ UNCHANGED <<compositeVars, disk, requests>>

\* the server process starts again: current_state = {} (main.py line 55)
Restart ==
    /\ pc = "idle"
    /\ current_state # << >>
    /\ current_state' = << >>
    /\ result' = Null
    /\ UNCHANGED <<pc, args, compositeVars, krigeVars, projects_collection, disk,
                   requests>>

NextApi ==
    \/ PostComposites \/ PostBlockModel
    \/ KrigeNoValid \/ KrigeBlockNone \/ KrigeBlockNearest \/ KrigeBlockSolve
    \/ KrigeReturn
    \/ BlockModelStore \/ Restart

SpecApi == InitApi /\ [][NextApi]_vars

---------------------------------------------------------------------------
(* The API: the projects of one user, from POST /upload-files to DELETE    *)
(*                                                                         *)
(* The collar, survey and lith files come together and are kept as one     *)
(* file, under "collar_path", that holds the drillholes build_drillhole_   *)
(* model builds from them; a DXF file holds the points load_dxf_surface    *)
(* reads from it. A file given to a request is << >> when it is not sent   *)
(* and <<content>> when it is. The keys columns, assay_variables,          *)
(* project_id, user_id, created_at and updated_at are left out.            *)

MaxRequests == 2

\* os.path.join(user_folder, kind): the same path for every project
UserPath(kind) == <<kind>>

\* os.path.join(user_folder, f"{kind}_{project_id}")
ProjectPath(kind, project_id) == <<kind, project_id>>

\* the assay files that come with POST /upload-files: one interval, or none
UploadedAssays ==
    {<<[ID |-> 1, FROM |-> 0, TO |-> 10, v |-> <<4>>]>>, << >>}

\* the assay file that PATCH brings: a negative and a missing value
PatchedAssays ==
    {<<[ID |-> 1, FROM |-> 0, TO |-> 10, v |-> <<-2>>],
       [ID |-> 1, FROM |-> 5, TO |-> 15, v |-> Null]>>}

\* a DXF without supported entities and one with a point
ProjectSurfaces == {<< >>, <<[x |-> 0, y |-> 0, z |-> 100]>>}

Optional(S) == {Null} \cup {<<e>> : e \in S}

\* the holes that come with POST /upload-files; PATCH brings the other ones
UploadedHoles ==
    {<<[hole_id |-> 1,
        trajectory |-> compute_trajectory(Collar1,
                           <<[AT |-> 15, AZ |-> 0, DIP |-> 90]>>)]>>}

ProjectNames == {"a", "b"}

\* the first row of the hole that holds the depth: FROM <= depth <= TO
RenderValue(assay_hole, depth) ==
    LET row == SelectSeq(assay_hole,
                         LAMBDA r : r.FROM <= depth /\ r.TO >= depth)
    IN  IF row = << >> THEN Null ELSE row[1].v

\* build_render: the value of the assay at every point of every trajectory
build_render(assay_model, df_assay) ==
    [h \in 1..Len(assay_model) |->
        LET hole == assay_model[h]
            assay_hole == SelectSeq(df_assay, LAMBDA r : r.ID = hole.hole_id)
        IN  [hole_id |-> hole.hole_id,
             points |-> [i \in 1..Len(hole.trajectory) |->
                            [x |-> hole.trajectory[i].x,
                             y |-> hole.trajectory[i].y,
                             z |-> hole.trajectory[i].z,
                             depth |-> hole.trajectory[i].depth,
                             value |-> RenderValue(assay_hole,
                                           hole.trajectory[i].depth)]]]]

\* the keys that get_project and update_project read with doc.get(key)
OptionalKeys ==
    {"composites", "composite_settings", "block_model", "block_settings",
     "surface_dxf"}

\* mutant: the drillholes are not read from the document
LoadedState_NoDrillholes(doc) ==
    [files |-> DocGet(doc, "files", << >>),
     nombre_proyecto |-> DocGet(doc, "nombre_proyecto", ""),
     drillholes |-> << >>,
     composites |-> DocGet(doc, "composites", << >>),
     composite_settings |-> DocGet(doc, "composite_settings", << >>),
     block_model |-> DocGet(doc, "block_model", << >>),
     block_settings |-> DocGet(doc, "block_settings", << >>),
     surface_dxf |-> DocGet(doc, "surface_dxf", << >>)]

\* the state update_project restores from the document
LoadedState(doc) ==
    WithNones([files |-> DocGet(doc, "files", << >>),
               nombre_proyecto |-> DocGet(doc, "nombre_proyecto", ""),
               drillholes |-> DocGet(doc, "drillholes", << >>),
               composites |-> DocGet(doc, "composites", << >>),
               composite_settings |-> DocGet(doc, "composite_settings", << >>),
               block_model |-> DocGet(doc, "block_model", << >>),
               block_settings |-> DocGet(doc, "block_settings", << >>),
               surface_dxf |-> DocGet(doc, "surface_dxf", << >>)],
              {key \in OptionalKeys : GetIsNone(doc, key)})

InitProjects ==
    /\ pc = "idle"
    /\ args = << >>
    /\ result = Null
    /\ hole_i = 0
    /\ comp_start = 0
    /\ composites = << >>
    /\ KrigeIdle
    /\ ApiIdle

\* POST /upload-files, when insert_one gives the document project_id
Upload(project_id) ==
    /\ pc = "idle"
    /\ requests < MaxRequests
    /\ project_id \notin DOMAIN projects_collection
    /\ \E nombre_proyecto \in {"a"}, collar \in UploadedHoles,
          assay \in UploadedAssays, dxf \in Optional(ProjectSurfaces) :
        LET base == [collar_path |-> UserPath("collar_std"),
                     assay_path |-> UserPath("assay_std")]
            files_state ==
                IF dxf = Null THEN base
                ELSE SetKey(base, "dxf_path", UserPath("surface"))
            written == SetKey(SetKey(disk, base.collar_path, collar),
                              base.assay_path, assay)
            state == [files |-> files_state,
                      nombre_proyecto |-> nombre_proyecto,
                      drillholes |-> collar]
            project_doc ==
                IF dxf = Null THEN state
                ELSE SetKey(state, "surface_dxf", dxf[1])
        IN  /\ disk' = IF dxf = Null THEN written
                       ELSE SetKey(written, UserPath("surface"), dxf[1])
            /\ projects_collection' =
                   SetKey(projects_collection, project_id, project_doc)
            /\ current_state' = SetKey(current_state, project_id, project_doc)
            /\ result' = [ok |-> TRUE, project_id |-> project_id,
                          total_holes |-> Len(collar)]
    /\ requests' = requests + 1
    /\ UNCHANGED <<pc, args, compositeVars, krigeVars>>

\* the user creates a project
UploadFiles == Upload("p1")

\* the user creates another project
UploadOther == Upload("p2")

\* GET /surface, /drillholes, /composites, /block-model and /assay-render:
\* the key of the state in memory, or an error when it is None
GetState ==
    /\ pc = "idle"
    /\ requests < MaxRequests
    /\ \E project_id \in ProjectIds,
          key \in {"surface_dxf", "drillholes", "composites", "block_model",
                   "assay_render"} :
        LET state == IF project_id \in DOMAIN current_state
                     THEN current_state[project_id] ELSE << >>
        IN  result' = IF GetIsNone(state, key) THEN Error("No hay.")
                      ELSE [ok |-> TRUE, value |-> state[key]]
    /\ requests' = requests + 1
    /\ UNCHANGED <<pc, args, compositeVars, krigeVars, current_state,
                   projects_collection, disk>>

\* POST /assay-feature: the render, in memory alone
AssayFeature ==
    /\ pc = "idle"
    /\ requests < MaxRequests
    /\ \E project_id \in ProjectIds, feature \in {"v", "w"} :
        LET state == current_state[project_id]
            assay_path == state.files.assay_path
        IN  IF project_id \notin DOMAIN current_state
            THEN /\ result' = Error("Primero genera el modelo.")
                 /\ UNCHANGED current_state
            ELSE IF assay_path \notin DOMAIN disk
            THEN /\ result' = [raised |-> "FileNotFoundError"]
                 /\ UNCHANGED current_state
            ELSE IF feature # "v"
            THEN /\ result' = Error("Variable no existe en assay.csv")
                 /\ UNCHANGED current_state
            ELSE /\ current_state' =
                        SetKey(current_state, project_id,
                            Assign(Assign(state, "assay_feature", feature),
                                   "assay_render",
                                   build_render(state.drillholes,
                                                disk[assay_path])))
                 /\ result' = [ok |-> TRUE, feature |-> feature]
    /\ requests' = requests + 1
    /\ UNCHANGED <<pc, args, compositeVars, krigeVars, projects_collection,
                   disk>>

\* GET /projects/{project_id}: the state in memory is replaced by the one
\* read from the document
GetProject ==
    /\ pc = "idle"
    /\ requests < MaxRequests
    /\ \E project_id \in ProjectIds :
        IF project_id \notin DOMAIN projects_collection
        THEN /\ result' = Error("Proyecto no encontrado.")
             /\ UNCHANGED current_state
        ELSE LET doc == projects_collection[project_id]
             IN  /\ current_state' =
                        SetKey(current_state, project_id,
                            AssignNone(AssignNone(LoadedState(doc),
                                                  "assay_feature"),
                                       "assay_render"))
                 /\ result' = [ok |-> TRUE, project |-> doc]
    /\ requests' = requests + 1
    /\ UNCHANGED <<pc, args, compositeVars, krigeVars, projects_collection,
                   disk>>

\* the keys that update_project sets to None when a base file came
DerivedKeys ==
    {"composites", "composite_settings", "block_model", "block_settings"}

\* mutant: the derived data are kept
AssignNoneAll_Kept(doc, keys) == doc

\* doc[key] = None for every key of keys
RECURSIVE AssignNoneAll(_, _)
AssignNoneAll(doc, keys) ==
    IF keys = {} THEN doc
    ELSE LET key == CHOOSE k \in keys : TRUE
         IN  AssignNoneAll(AssignNone(doc, key), keys \ {key})

\* PATCH /projects/{project_id}
UpdateProject ==
    /\ pc = "idle"
    /\ requests < MaxRequests
    /\ \E project_id \in ProjectIds,
          nombre_proyecto \in Optional({"b"}),
          collar \in Optional(ApiDrillholes \ UploadedHoles),
          assay \in Optional(PatchedAssays),
          dxf \in Optional(ProjectSurfaces) :
        IF project_id \notin DOMAIN projects_collection
        THEN /\ result' = Error("Proyecto no encontrado.")
             /\ UNCHANGED <<current_state, projects_collection, disk>>
        ELSE
        LET doc == projects_collection[project_id]
            restored == IF project_id \in DOMAIN current_state
                        THEN current_state[project_id]
                        ELSE LoadedState(doc)
            named == IF nombre_proyecto = Null THEN restored
                     ELSE SetKey(restored, "nombre_proyecto",
                                 nombre_proyecto[1])
            base_files_updated == collar # Null \/ assay # Null
            files_updated == base_files_updated \/ dxf # Null
            \* files_state after the files that came were written
            dxf_files ==
                IF dxf = Null THEN restored.files
                ELSE SetKey(restored.files, "dxf_path",
                            ProjectPath("surface", project_id))
            dxf_disk ==
                IF dxf = Null THEN disk
                ELSE SetKey(disk, ProjectPath("surface", project_id), dxf[1])
            state == IF dxf = Null THEN named
                     ELSE Assign(named, "surface_dxf", dxf[1])
            \* the base files are read where files_state points
            missing ==
                \/ collar = Null /\ "collar_path" \notin DOMAIN dxf_files
                \/ assay = Null /\ "assay_path" \notin DOMAIN dxf_files
            unreadable ==
                \/ collar = Null /\ dxf_files.collar_path \notin DOMAIN disk
                \/ assay = Null /\ dxf_files.assay_path \notin DOMAIN disk
            collar_df == IF collar = Null THEN disk[dxf_files.collar_path]
                         ELSE collar[1]
            assay_df == IF assay = Null THEN disk[dxf_files.assay_path]
                        ELSE assay[1]
            collar_std_path == ProjectPath("collar_std", project_id)
            assay_std_path == ProjectPath("assay_std", project_id)
            files_state ==
                SetKey(SetKey(dxf_files, "collar_path", collar_std_path),
                       "assay_path", assay_std_path)
            cleared ==
                AssignNoneAll(
                    SetKey(SetKey(state, "files", files_state),
                           "drillholes", collar_df),
                    DerivedKeys \cup {"assay_feature", "assay_render"})
            \* a DXF stored before is read again when none came
            regenerated ==
                IF /\ dxf = Null
                   /\ "dxf_path" \in DOMAIN files_state
                   /\ files_state.dxf_path \in DOMAIN disk
                THEN Assign(cleared, "surface_dxf", disk[files_state.dxf_path])
                ELSE cleared
            final == IF base_files_updated THEN regenerated ELSE state
            surface == DocGet(final, "surface_dxf", << >>)
            doc_named == IF nombre_proyecto = Null THEN doc
                         ELSE SetKey(doc, "nombre_proyecto",
                                     nombre_proyecto[1])
            doc_files == IF ~files_updated THEN doc_named
                         ELSE SetKey(doc_named, "files",
                                     IF base_files_updated THEN files_state
                                     ELSE dxf_files)
            doc_base == IF ~base_files_updated THEN doc_files
                        ELSE AssignNoneAll(
                                 SetKey(doc_files, "drillholes", collar_df),
                                 DerivedKeys)
            update_doc ==
                IF (base_files_updated \/ dxf # Null) /\ surface # << >>
                THEN Assign(doc_base, "surface_dxf", surface)
                ELSE doc_base
        IN  IF base_files_updated /\ missing
            THEN /\ result' = Error("Faltan archivos base.")
                 /\ current_state' = SetKey(current_state, project_id, state)
                 /\ disk' = dxf_disk
                 /\ UNCHANGED projects_collection
            ELSE IF base_files_updated /\ unreadable
            THEN /\ result' = [raised |-> "FileNotFoundError"]
                 /\ current_state' = SetKey(current_state, project_id, state)
                 /\ disk' = dxf_disk
                 /\ UNCHANGED projects_collection
            ELSE /\ current_state' = SetKey(current_state, project_id, final)
                 /\ disk' = IF base_files_updated
                            THEN SetKey(SetKey(dxf_disk, collar_std_path,
                                               collar_df),
                                        assay_std_path, assay_df)
                            ELSE dxf_disk
                 /\ projects_collection' =
                        SetKey(projects_collection, project_id, update_doc)
                 /\ result' = [ok |-> TRUE, project_id |-> project_id,
                               files_updated |-> files_updated,
                               regenerated |-> base_files_updated]
    /\ requests' = requests + 1
    /\ UNCHANGED <<pc, args, compositeVars, krigeVars>>

\* DELETE /projects/{project_id}
DeleteProject ==
    /\ pc = "idle"
    /\ requests < MaxRequests
    /\ \E project_id \in ProjectIds :
        IF project_id \notin DOMAIN projects_collection
        THEN /\ result' = Error("Proyecto no encontrado.")
             /\ UNCHANGED <<current_state, projects_collection, disk>>
        ELSE LET files == DocGet(projects_collection[project_id], "files",
                                 << >>)
                 removed == {files[key] : key \in DOMAIN files}
             IN  /\ disk' = [f \in DOMAIN disk \ removed |-> disk[f]]
                 /\ projects_collection' =
                        DelKey(projects_collection, project_id)
                 /\ current_state' = DelKey(current_state, project_id)
                 /\ result' = [ok |-> TRUE]
    /\ requests' = requests + 1
    /\ UNCHANGED <<pc, args, compositeVars, krigeVars>>

NextProjects ==
    \/ UploadFiles \/ GetState \/ AssayFeature \/ GetProject
    \/ UpdateProject \/ DeleteProject
    \/ PostComposites \/ PostBlockModel
    \/ KrigeNoValid \/ KrigeBlockNone \/ KrigeBlockNearest \/ KrigeBlockSolve
    \/ KrigeReturn
    \/ BlockModelStore \/ Restart

SpecProjects == InitProjects /\ [][NextProjects]_vars

\* two projects of the user, without block models
NextFiles ==
    \/ UploadFiles \/ UploadOther \/ AssayFeature \/ UpdateProject
    \/ DeleteProject \/ PostComposites

SpecFiles == InitProjects /\ [][NextFiles]_vars

---------------------------------------------------------------------------
(* DELETE /projects/{id} and POST /composites of one project served at the  *)
(* same time: both are def endpoints, which run in the threadpool, so the   *)
(* steps of the two handlers on current_state, the collection and the disk  *)
(* interleave                                                               *)

ServedProject == "p1"

\* The two requests arrive: the locals of each handler, with its position.
\* state is the dict that generate_composites holds, doc what find_one gave.
ServeTogether ==
    /\ pc = "idle"
    /\ ServedProject \in DOMAIN projects_collection
    /\ \E req \in CompositeRequests :
        args' = [req |-> req,
                 composites |-> [at |-> "lookup", state |-> << >>,
                                 doc |-> << >>],
                 delete |-> [at |-> "find_one", files |-> << >>]]
    /\ pc' = "serving"
    /\ result' = Null
    /\ UNCHANGED <<compositeVars, krigeVars, apiVars>>

CompositesAt(at) == pc = "serving" /\ args.composites.at = at

DeleteAt(at) == pc = "serving" /\ args.delete.at = at

\* state = current_state.get(project_id)
CompositesLookup ==
    /\ CompositesAt("lookup")
    /\ args' = IF ServedProject \in DOMAIN current_state
               THEN [args EXCEPT !.composites.at = "store",
                                 !.composites.state =
                                     current_state[ServedProject]]
               ELSE [args EXCEPT !.composites.at = "find_one"]
    /\ UNCHANGED <<pc, result, compositeVars, krigeVars, apiVars>>

\* doc = projects_collection.find_one({"_id": oid})
CompositesFindOne ==
    /\ CompositesAt("find_one")
    /\ args' = IF ServedProject \in DOMAIN projects_collection
               THEN [args EXCEPT !.composites.at = "restore",
                                 !.composites.doc =
                                     projects_collection[ServedProject]]
               ELSE [args EXCEPT !.composites.at = "not_found"]
    /\ UNCHANGED <<pc, result, compositeVars, krigeVars, apiVars>>

\* current_state[project_id] = {...}; state = current_state[project_id]
CompositesRestore ==
    /\ CompositesAt("restore")
    /\ LET state == RestoredState(args.composites.doc)
       IN  /\ current_state' = SetKey(current_state, ServedProject, state)
           /\ args' = [args EXCEPT !.composites.at = "store",
                                   !.composites.state = state]
    /\ UNCHANGED <<pc, result, compositeVars, krigeVars, projects_collection,
                   disk, requests>>

\* The rest of generate_composites: the assay file is read, the composites
\* are built and assigned to the dict the handler holds, which is the one of
\* current_state unless DELETE took it out, and update_one changes the
\* document when there is one.
CompositesStore ==
    /\ CompositesAt("store")
    /\ LET req == args.req
           state == args.composites.state
           comp_name == CompName(req)
           comps == StoredComposites(
                        build_composites(state.drillholes,
                                         disk[state.files.assay_path],
                                         req.composite_length, req.top_cut,
                                         req.min_samples))
           stored == CompositesUpdate(state, comp_name, comps, req)
       IN  IF state.files.assay_path \notin DOMAIN disk
           THEN /\ args' = [args EXCEPT !.composites.at = "raised"]
                /\ UNCHANGED <<current_state, projects_collection>>
           ELSE IF req.variable # "v"
           THEN /\ args' = [args EXCEPT !.composites.at = "refused"]
                /\ UNCHANGED <<current_state, projects_collection>>
           ELSE /\ args' = [args EXCEPT !.composites.at = "ok",
                                        !.composites.state = stored]
                /\ current_state' =
                       IF ServedProject \in DOMAIN current_state
                       THEN SetKey(current_state, ServedProject, stored)
                       ELSE current_state
                /\ projects_collection' =
                       IF ServedProject \in DOMAIN projects_collection
                       THEN SetKey(projects_collection, ServedProject,
                                CompositesUpdate(
                                    projects_collection[ServedProject],
                                    comp_name, comps, req))
                       ELSE projects_collection
    /\ UNCHANGED <<pc, result, compositeVars, krigeVars, disk, requests>>

\* doc = projects_collection.find_one({"_id": oid, "user_id": ...})
DeleteFindOne ==
    /\ DeleteAt("find_one")
    /\ args' = IF ServedProject \in DOMAIN projects_collection
               THEN [args EXCEPT !.delete.at = "remove",
                                 !.delete.files =
                                     DocGet(projects_collection[ServedProject],
                                            "files", << >>)]
               ELSE [args EXCEPT !.delete.at = "not_found"]
    /\ UNCHANGED <<pc, result, compositeVars, krigeVars, apiVars>>

\* os.remove of every file of the document that exists
DeleteRemoveFiles ==
    /\ DeleteAt("remove")
    /\ LET files == args.delete.files
           removed == {files[key] : key \in DOMAIN files}
       IN  disk' = [f \in DOMAIN disk \ removed |-> disk[f]]
    /\ args' = [args EXCEPT !.delete.at = "delete_one"]
    /\ UNCHANGED <<pc, result, compositeVars, krigeVars, current_state,
                   projects_collection, requests>>

\* result = projects_collection.delete_one({"_id": oid})
DeleteDeleteOne ==
    /\ DeleteAt("delete_one")
    /\ projects_collection' = DelKey(projects_collection, ServedProject)
    /\ args' = [args EXCEPT !.delete.at =
                    IF ServedProject \in DOMAIN projects_collection
                    THEN "forget" ELSE "forget_none"]
    /\ UNCHANGED <<pc, result, compositeVars, krigeVars, current_state, disk,
                   requests>>

\* if project_id in current_state: del current_state[project_id], and the
\* answer by deleted_count
DeleteForget ==
    /\ pc = "serving"
    /\ args.delete.at \in {"forget", "forget_none"}
    /\ current_state' = DelKey(current_state, ServedProject)
    /\ args' = [args EXCEPT !.delete.at =
                    IF args.delete.at = "forget" THEN "ok" ELSE "error"]
    /\ UNCHANGED <<pc, result, compositeVars, krigeVars, projects_collection,
                   disk, requests>>

NextDelete ==
    \/ UploadFiles \/ Restart \/ ServeTogether
    \/ CompositesLookup \/ CompositesFindOne \/ CompositesRestore
    \/ CompositesStore
    \/ DeleteFindOne \/ DeleteRemoveFiles \/ DeleteDeleteOne \/ DeleteForget

SpecDelete == InitProjects /\ [][NextDelete]_vars

---------------------------------------------------------------------------
(* The loops of POST /composites and POST /block-model, one test of a      *)
(* while condition at a time, for the lengths and sizes that the request   *)
(* schemas let through: CompositeRequest.composite_length and the three    *)
(* BlockModelRequest.block_size_ are float fields without a constraint     *)

MaxWalk == 100

MaxBlocks == 12

AnyLengths == {-5, 0, 5}

AnySizes == {-20, 0, 20}

\* A loop variable that only ever falls stays below every end of a loop: it
\* is kept at -MaxWalk, which is below every end of the model.
Falling(v) == Max(v, -MaxWalk)

LoopFrames == {<< >>, <<[ID |-> 1, FROM |-> 0, TO |-> 10, v |-> <<4>>]>>}

LoopBoxes ==
    {auto_detect_bbox(drillholes, << >>, 20) :
        drillholes \in GridDrillholes \ {<< >>}}

InitLoops ==
    /\ \/ /\ pc = "walk"
          /\ args \in [drillholes : DrillholeSets, assay_df : LoopFrames,
                        length : AnyLengths, top_cut : {Null},
                        min_samples : {1}]
          /\ hole_i = 1
       \/ /\ pc = "x"
          /\ \E bbox \in LoopBoxes :
                args \in [bbox : {bbox},
                          req : [block_size_x : AnySizes,
                                 block_size_y : AnySizes,
                                 block_size_z : AnySizes],
                          x : {bbox.minX}, y : {bbox.minY}, z : {bbox.minZ}]
          /\ hole_i = 0
    /\ result = Null
    /\ comp_start = 0
    /\ composites = << >>
    /\ KrigeIdle
    /\ ApiIdle

\* while comp_start < max_depth: the walk enters the window
WindowTest ==
    /\ pc = "walk" /\ hole_i <= Len(args.drillholes)
    /\ WindowOpen(comp_start, CurMaxDepth)
    /\ pc' = "window"
    /\ UNCHANGED <<args, result, compositeVars, krigeVars, apiVars>>

\* the body of the while loop: the window is skipped or its composite is
\* appended, and comp_start = comp_end
WindowBody ==
    /\ pc = "window"
    /\ composites' = composites \o CurRecord
    /\ comp_start' = Falling(comp_start + args.length)
    /\ pc' = "walk"
    /\ UNCHANGED <<args, result, hole_i, krigeVars, apiVars>>

\* x = minX; while x < maxX: y = minY
GridX ==
    /\ pc = "x"
    /\ IF args.x < args.bbox.maxX
       THEN /\ args' = [args EXCEPT !.y = args.bbox.minY]
            /\ pc' = "y"
       ELSE /\ pc' = "grid_done"
            /\ UNCHANGED args
    /\ UNCHANGED <<result, compositeVars, krigeVars, apiVars>>

\* while y < maxY: z = minZ; after the loop x += req.block_size_x
GridY ==
    /\ pc = "y"
    /\ IF args.y < args.bbox.maxY
       THEN /\ args' = [args EXCEPT !.z = args.bbox.minZ]
            /\ pc' = "z"
       ELSE /\ args' = [args EXCEPT !.x = Falling(@ + args.req.block_size_x)]
            /\ pc' = "x"
    /\ UNCHANGED <<result, compositeVars, krigeVars, apiVars>>

\* while z < maxZ; after the loop y += req.block_size_y
GridZ ==
    /\ pc = "z"
    /\ IF args.z < args.bbox.maxZ
       THEN /\ pc' = "append"
            /\ UNCHANGED args
       ELSE /\ args' = [args EXCEPT !.y = Falling(@ + args.req.block_size_y)]
            /\ pc' = "y"
    /\ UNCHANGED <<result, compositeVars, krigeVars, apiVars>>

\* blocks.append({...}); z += req.block_size_z. Of a list that grows without
\* end the first MaxBlocks blocks are kept.
GridAppend ==
    /\ pc = "append"
    /\ LET req == args.req
           block == [x |-> args.x + req.block_size_x \div 2,
                     y |-> args.y + req.block_size_y \div 2,
                     z |-> args.z + req.block_size_z \div 2,
                     size_x |-> req.block_size_x,
                     size_y |-> req.block_size_y,
                     size_z |-> req.block_size_z,
                     est |-> RealOfRat(<<-99, 1>>)]
       IN  blocks' = IF Len(blocks) < MaxBlocks THEN Append(blocks, block)
                     ELSE blocks
    /\ args' = [args EXCEPT !.z = Falling(@ + args.req.block_size_z)]
    /\ pc' = "z"
    /\ UNCHANGED <<result, compositeVars, block_i, idx, lam, apiVars>>

NextLoops ==
    \/ WindowTest \/ WindowBody \/ NextHole \/ ReturnComposites
    \/ GridX \/ GridY \/ GridZ \/ GridAppend

\* a handler that a thread of the server runs takes its next step
SpecLoops == InitLoops /\ [][NextLoops]_vars /\ WF_vars(NextLoops)

---------------------------------------------------------------------------
(* Properties of build_composites                                          *)

\* the records of a returned list that belong to hole h, in order
RecordsOf(list, h) ==
    LET OfHole(r) == r.hole_id = h
    IN  SelectSeq(list, OfHole)

\* the indices of the assay rows of hole h that intersect [s, s + length)
Qualifying(h, s) ==
    {j \in 1..Len(args.assay_df) :
        /\ args.assay_df[j].ID = h
        /\ args.assay_df[j].FROM < s + args.length
        /\ args.assay_df[j].TO > s}

\* the smallest k with k * length >= max_depth of a hole
WindowCount(hole) ==
    LET max_depth == hole.trajectory[Len(hole.trajectory)].depth
    IN  CHOOSE k \in 0..(max_depth + 1) :
            /\ k * args.length >= max_depth
            /\ \A j \in 0..(k - 1) : j * args.length < max_depth

\* the window starts of a hole that have enough intersecting rows
EnoughStarts(hole) ==
    {i * args.length : i \in
        {i \in 0..(WindowCount(hole) - 1) :
            Cardinality(Qualifying(hole.hole_id, i * args.length))
                >= args.min_samples}}

C7_MinSamplesGate ==
    [][(pc = "walk" /\ hole_i' = hole_i /\ comp_start' # comp_start) =>
        LET h == CurHole.hole_id
            n == Cardinality(Qualifying(h, comp_start))
        IN  IF n < args.min_samples
            THEN composites' = composites
            ELSE /\ Len(composites') = Len(composites) + 1
                 /\ SubSeq(composites', 1, Len(composites)) = composites
                 /\ composites'[Len(composites')].hole_id = h
                 /\ composites'[Len(composites')].from = comp_start
                 /\ composites'[Len(composites')].to = comp_start + args.length
       ]_vars

\* min_samples = 2: one window was emitted on the strength of an interval
\* with a missing value, another window with a single interval was skipped
C7_Witness ==
    /\ pc = "done"
    /\ args.min_samples = 2
    /\ \E i \in 1..Len(result) :
            LET q == Qualifying(result[i].hole_id, result[i].from)
            IN  /\ Cardinality(q) = 2
                /\ \E j \in q : IsNull(args.assay_df[j].v)
    /\ \E d \in 1..Len(args.drillholes) :
            LET hole == args.drillholes[d]
            IN  \E i \in 0..(WindowCount(hole) - 1) :
                    /\ Cardinality(Qualifying(hole.hole_id, i * args.length)) = 1
                    /\ \A k \in 1..Len(result) :
                            ~(result[k].hole_id = hole.hole_id
                              /\ result[k].from = i * args.length)

\* the value of assay row j after the top cut
CutValue(j) ==
    LET v == args.assay_df[j].v[1]
    IN  IF ~IsNull(args.top_cut) /\ v > args.top_cut[1]
        THEN args.top_cut[1] ELSE v

\* the length that assay row j shares with [s, s + length)
Shared(j, s) ==
    LET row == args.assay_df[j]
        hi == IF row.TO < s + args.length THEN row.TO ELSE s + args.length
        lo == IF row.FROM > s THEN row.FROM ELSE s
    IN  hi - lo

RECURSIVE SharedTotal(_, _)
SharedTotal(rows, s) ==
    IF rows = {} THEN 0
    ELSE LET j == CHOOSE j \in rows : TRUE
         IN  Shared(j, s) + SharedTotal(rows \ {j}, s)

RECURSIVE CutValueTotal(_, _)
CutValueTotal(rows, s) ==
    IF rows = {} THEN 0
    ELSE LET j == CHOOSE j \in rows : TRUE
         IN  CutValue(j) * Shared(j, s) + CutValueTotal(rows \ {j}, s)

\* the intersecting rows of a window whose value is present
Present(h, s) == {j \in Qualifying(h, s) : ~IsNull(args.assay_df[j].v)}

\* C8: a window with at least min_samples intersecting intervals, all of them
\* with a missing value, is emitted with value null; every other emitted
\* record carries the overlap-weighted mean of the present values after the
\* top cut.
C8_NullEmittedElseWeightedMean ==
    pc = "done" =>
        /\ \A i \in 1..Len(result) :
                LET r == result[i]
                    present == Present(r.hole_id, r.from)
                IN  IF present = {} THEN IsNull(r.value)
                    ELSE /\ ~IsNull(r.value)
                         /\ r.value[1] * SharedTotal(present, r.from)
                                = CutValueTotal(present, r.from) * r.value[2]
        /\ \A d \in 1..Len(args.drillholes) :
                LET hole == args.drillholes[d]
                IN  \A s \in EnoughStarts(hole) :
                        Present(hole.hole_id, s) = {} =>
                            \E i \in 1..Len(result) :
                                /\ result[i].hole_id = hole.hole_id
                                /\ result[i].from = s
                                /\ IsNull(result[i].value)

\* one record with value null, emitted although none of its intervals has a
\* value, next to a record whose mean is taken over a cut value
C8_Witness ==
    /\ pc = "done"
    /\ \E i \in 1..Len(result) :
            /\ IsNull(result[i].value)
            /\ Qualifying(result[i].hole_id, result[i].from) # {}
    /\ \E i \in 1..Len(result) :
            LET present == Present(result[i].hole_id, result[i].from)
            IN  /\ ~IsNull(result[i].value)
                /\ present # Qualifying(result[i].hole_id, result[i].from)
                /\ \E j \in present : CutValue(j) # args.assay_df[j].v[1]

C10_Scenario ==
    /\ args.length = 5 /\ args.min_samples = 1 /\ IsNull(args.top_cut)
    /\ \E j \in 1..Len(args.assay_df) :
            /\ args.assay_df[j] = [ID |-> 1, FROM |-> 0, TO |-> 10, v |-> <<2>>]
            /\ \A k \in 1..Len(args.assay_df) :
                    args.assay_df[k].ID = 1 => k = j

\* the windows and values of the composites of hole 1
C10_Hole1 ==
    LET recs == RecordsOf(result, 1)
    IN  [i \in 1..Len(recs) |-> <<recs[i].from, recs[i].to, recs[i].value>>]

C10_TwoComposites == <<<<0, 5, <<2, 1>>>>, <<5, 10, <<2, 1>>>>>>

\* C10 as stated: in that scenario the hole gets exactly the composites
\* [0,5] -> 2 and [5,10] -> 2, whatever depth its survey stations reach.
C10_AlwaysTwoComposites ==
    (pc = "done" /\ C10_Scenario) => C10_Hole1 = C10_TwoComposites

\* C10 amended: in that scenario the hole gets exactly the composites
\* [0,5] -> 2 and [5,10] -> 2 provided its last trajectory point is deeper
\* than 5; when it is not deeper than 5 the hole gets fewer than two.
C10_TwoCompositesWhenDeeperThan5 ==
    (pc = "done" /\ C10_Scenario) =>
        LET traj == args.drillholes[1].trajectory
        IN  IF traj[Len(traj)].depth > 5
            THEN C10_Hole1 = C10_TwoComposites
            ELSE Len(C10_Hole1) < 2

\* the scenario on a hole surveyed down to 15
C10_Witness ==
    /\ pc = "done" /\ C10_Scenario
    /\ args.drillholes[1].trajectory[Len(args.drillholes[1].trajectory)].depth = 15
    /\ C10_Hole1 = C10_TwoComposites

---------------------------------------------------------------------------
(* Properties of build_samples_from_assay                                  *)

\* the indices of the assay rows of a hole with the given ends, with a value
ValuedRowsAt(h, from, to) ==
    {j \in 1..Len(args.assay_df) :
        /\ args.assay_df[j].ID = h
        /\ args.assay_df[j].FROM = from /\ args.assay_df[j].TO = to
        /\ ~IsNull(args.assay_df[j].v)}

SamplesAt(h, from, to) ==
    {i \in 1..Len(result) :
        /\ result[i].hole_id = h
        /\ result[i].from = from /\ result[i].to = to}

\* C5: the call never fails, and it returns exactly one Sample for every
\* assay interval of a hole whose value is present and none for an interval
\* whose value is missing, also for trajectories with consecutive points at
\* equal depth and for single-point trajectories.
C5_OneSamplePerValuedInterval ==
    /\ pc # "raised"
    /\ pc = "done" =>
            /\ \A d \in 1..Len(args.drillholes) :
                    \A j \in 1..Len(args.assay_df) :
                        LET h == args.drillholes[d].hole_id
                            from == args.assay_df[j].FROM
                            to == args.assay_df[j].TO
                        IN  Cardinality(SamplesAt(h, from, to))
                                = Cardinality(ValuedRowsAt(h, from, to))
            /\ Len(result) =
                    Cardinality({j \in 1..Len(args.assay_df) :
                                    ~IsNull(args.assay_df[j].v)})

\* two consecutive trajectory points at the depth of an interval's middle,
\* one interval with a value and one without
C5_Witness ==
    /\ pc = "done"
    /\ \E j, k \in 1..Len(args.assay_df) :
            LET traj == args.drillholes[1].trajectory
                row == args.assay_df[j]
            IN  /\ row.ID = 1 /\ ~IsNull(row.v)
                /\ args.assay_df[k].ID = 1 /\ IsNull(args.assay_df[k].v)
                /\ \E i \in 1..(Len(traj) - 1) :
                        /\ traj[i].depth = traj[i + 1].depth
                        /\ 2 * traj[i].depth = row.FROM + row.TO
                /\ Cardinality(SamplesAt(1, row.FROM, row.TO)) = 1

\* a hole without survey stations: the trajectory is the collar alone
C5_WitnessSinglePoint ==
    /\ pc = "done"
    /\ Len(args.drillholes[1].trajectory) = 1
    /\ SamplesAt(1, 0, 10) # {}

---------------------------------------------------------------------------
(* Properties of krige_blocks                                              *)

\* the block has been given its value
Estimated(i) == pc = "krige_done" \/ i < block_i

\* the input points that have a value and lie within 100 of block i, in the
\* order of the input
InReach(i) ==
    SelectSeq(args.composites,
              LAMBDA c : /\ ~IsNull(c.value)
                         /\ Dist2(c, args.blocks[i]) <= 100 * 100)

OneMillionth == Real(BigOfInt(1), BigOfInt(1000000))

\* how far the weights of the last solve sum from 1
WeightSumError == RealAbs(RealSub(RealSum(lam), Real(BigOfInt(1), BigOfInt(1))))

\* C2: after a block with 3 or more neighbours is estimated by the solve,
\* the kriging weights sum to 1 within 1e-6.
C2_WeightsSumToOne ==
    lam # << >> => Len(lam) >= 3 /\ RealLeq(WeightSumError, OneMillionth)

\* three weights whose sum is between 9e-7 and 1e-6 away from 1
C2_Witness ==
    /\ Len(lam) = 3
    /\ Len(InReach(block_i - 1)) = 3
    /\ RealLeq(Real(BigOfInt(9), BigOfInt(10000000)), WeightSumError)
    /\ RealLeq(WeightSumError, OneMillionth)

\* C6: a block with no valued input point within the search radius has the
\* estimate null once it is estimated, also when no input point has a value;
\* the call raises nothing.
C6_NoNeighbourIsNull ==
    /\ pc \in {"krige", "krige_done"}
    /\ \A i \in 1..Len(blocks) :
          Estimated(i) /\ InReach(i) = << >>
              => "value" \in DOMAIN blocks[i] /\ IsNull(blocks[i].value)

\* a block with no point in reach beside a block with a number, and the
\* returned list
C6_Witness ==
    /\ pc = "krige_done" /\ result = blocks
    /\ \E i, j \in 1..Len(blocks) :
          /\ InReach(i) = << >> /\ IsNull(blocks[i].value)
          /\ InReach(j) # << >> /\ ~IsNull(blocks[j].value)

\* no input point has a value and every block is null
C6_WitnessNoValidPoint ==
    /\ pc = "krige_done" /\ args.composites # << >>
    /\ ValidPoints(args.composites) = << >>
    /\ \A i \in 1..Len(blocks) : IsNull(blocks[i].value)

\* the first of the points in reach of block i that no other is nearer than
NearestInReach(i) ==
    LET near == InReach(i)
        j == CHOOSE a \in 1..Len(near) :
                 /\ \A c \in 1..Len(near) :
                        Dist2(near[a], args.blocks[i]) <= Dist2(near[c], args.blocks[i])
                 /\ \A c \in 1..(a - 1) :
                        Dist2(near[c], args.blocks[i]) > Dist2(near[a], args.blocks[i])
    IN  near[j]

\* C3: a block with 1 or 2 valued points within the search radius has, once
\* estimated, the value of the nearest of them, the earliest in the input
\* among equally near ones, whatever the order the index returns them in.
C3_NearestPointValue ==
    \A i \in 1..Len(blocks) :
        Estimated(i) /\ Len(InReach(i)) \in {1, 2}
            => /\ ~IsNull(blocks[i].value)
               /\ RealEq(blocks[i].value, RealOfRat(NearestInReach(i).value))

---------------------------------------------------------------------------
(* Properties of the API                                                   *)

\* the composites as build_composites emitted them for the set that the
\* running POST /block-model estimates from
EmittedComposites ==
    LET state == current_state[args.project_id]
        settings == state.composite_settings[args.req.composite_name]
    IN  build_composites(state.drillholes, disk[state.files.assay_path],
                         settings.composite_length, settings.top_cut,
                         settings.min_samples)

\* the places in the composite list of the points that are indexed
IndexedPlaces ==
    SelectSeq([i \in 1..Len(args.composites) |-> i],
              LAMBDA i : ~IsNull(args.composites[i].value))

\* the places in the composite list of the points that the estimate of the
\* last block is computed from: idx[0] alone without a solve
Contributors ==
    IF idx = << >> THEN {}
    ELSE IF lam = << >> THEN {IndexedPlaces[idx[1]]}
    ELSE {IndexedPlaces[idx[k]] : k \in 1..Len(idx)}

\* C4: while POST /block-model estimates blocks from the composite set that
\* POST /composites stored, every point indexed for kriging has a present
\* value, and no composite that build_composites emitted with a null value
\* is among the points a block estimate is computed from.
C4_NullCompositesNeverContribute ==
    pc \in {"krige", "krige_done"} =>
        /\ \A i \in 1..Len(CurPoints) : ~IsNull(CurPoints[i].value)
        /\ \A i \in Contributors : ~IsNull(EmittedComposites[i].value)

---------------------------------------------------------------------------
(* Properties of compute_trajectory                                        *)

\* C11: the trajectory returned for n stations has n + 1 points; the first
\* is the collar at depth 0 and point i + 1 has the depth of station i, so
\* no station gives the collar alone.
C11_OnePointPerStation ==
    pc = "done" =>
        /\ Len(result) = Len(args.survey_df) + 1
        /\ result[1] = [x |-> args.collar_row.X, y |-> args.collar_row.Y,
                        z |-> args.collar_row.Z, depth |-> 0]
        /\ \A i \in 1..Len(args.survey_df) :
               result[i + 1].depth = args.survey_df[i].AT

\* a returned trajectory of three points whose stations are not in order
C11_Witness ==
    /\ pc = "done" /\ Len(result) = 3
    /\ args.survey_df[1].AT > args.survey_df[2].AT

\* no station: the collar alone
C11_WitnessNoStation ==
    pc = "done" /\ args.survey_df = << >> /\ Len(result) = 1

\* C12: z does not increase from a point of the returned trajectory to the
\* next, whatever the signs of the dips, and two stations that follow each
\* other at one depth give two points at one position.
C12_ElevationNeverIncreases ==
    pc = "done" =>
        /\ \A i \in 1..(Len(result) - 1) : result[i + 1].z <= result[i].z
        /\ \A i \in 1..(Len(args.survey_df) - 1) :
               args.survey_df[i].AT = args.survey_df[i + 1].AT
                   => /\ result[i + 2].x = result[i + 1].x
                      /\ result[i + 2].y = result[i + 1].y
                      /\ result[i + 2].z = result[i + 1].z

\* a station with a negative dip that lowers z, and two stations at one depth
C12_Witness ==
    /\ pc = "done" /\ Len(result) = 3
    /\ args.survey_df[1].DIP = -90 /\ result[2].z < result[1].z
    /\ args.survey_df[1].AT = args.survey_df[2].AT
    /\ result[3] = result[2]

\* a station above the one before it, with a negative dip: z goes down still
C12_WitnessBackwards ==
    /\ pc = "done" /\ Len(result) = 3
    /\ args.survey_df[2].AT < args.survey_df[1].AT
    /\ args.survey_df[2].DIP = -90
    /\ result[3].z < result[2].z

---------------------------------------------------------------------------
(* Position of a composite                                                 *)

TrajectoryOfHole(h) ==
    LET i == CHOOSE k \in 1..Len(args.drillholes) : args.drillholes[k].hole_id = h
    IN  args.drillholes[i].trajectory

\* twice the distance in depth from point j of a trajectory to the middle
\* of the window of record r
MidDistance2(traj, j, r) == Abs(2 * traj[j].depth - (r.from + r.to))

\* point j is the earliest point of the trajectory nearest in depth to the
\* middle of the window of r
EarliestNearest(traj, j, r) ==
    /\ \A k \in 1..Len(traj) : MidDistance2(traj, j, r) <= MidDistance2(traj, k, r)
    /\ \A k \in 1..(j - 1) : MidDistance2(traj, j, r) < MidDistance2(traj, k, r)

\* C13: the x, y, z of every composite are those of a point of the trajectory
\* of its hole, the earliest of the points whose depth is nearest to the
\* middle of the window.
C13_PositionIsNearestTrajectoryPoint ==
    \A c \in 1..Len(composites) :
        LET r == composites[c]
            traj == TrajectoryOfHole(r.hole_id)
        IN  \E j \in 1..Len(traj) :
                /\ EarliestNearest(traj, j, r)
                /\ r.x = traj[j].x /\ r.y = traj[j].y /\ r.z = traj[j].z

\* a composite whose window middle is as far from one point as from the next,
\* and one whose nearest point is not the first
C13_Witness ==
    /\ pc = "done"
    /\ \E c \in 1..Len(result) :
           LET r == result[c]
               traj == TrajectoryOfHole(r.hole_id)
           IN  \E j \in 1..(Len(traj) - 1) :
                   /\ EarliestNearest(traj, j, r)
                   /\ MidDistance2(traj, j + 1, r) = MidDistance2(traj, j, r)
                   /\ r.z = traj[j].z /\ r.z # traj[j + 1].z
    /\ \E c \in 1..Len(result) :
           LET r == result[c]
               traj == TrajectoryOfHole(r.hole_id)
           IN  Len(traj) = 3 /\ EarliestNearest(traj, 3, r) /\ r.z = traj[3].z

---------------------------------------------------------------------------
(* Position of a sample                                                    *)

\* the points i and i + 1 of a sorted trajectory straddle the depth mid2 / 2
Straddles(traj, i, mid2) ==
    2 * traj[i].depth <= mid2 /\ mid2 <= 2 * traj[i + 1].depth

\* the rational c is a + (num / den) * (b - a)
IsInterpolation(c, a, b, num, den) ==
    c[1] * den = c[2] * (a * den + num * (b - a))

\* the sample r lies between the points p and q, at the fraction of the
\* segment that its depth mid2 / 2 has between their depths
OnSegment(r, p, q, mid2) ==
    IF p.depth < q.depth
    THEN LET num == mid2 - 2 * p.depth
             den == 2 * (q.depth - p.depth)
         IN  /\ IsInterpolation(r.x, p.x, q.x, num, den)
             /\ IsInterpolation(r.y, p.y, q.y, num, den)
             /\ IsInterpolation(r.z, p.z, q.z, num, den)
    ELSE /\ r.x = <<p.x, 1>> /\ r.y = <<p.y, 1>> /\ r.z = <<p.z, 1>>
         /\ p.x = q.x /\ p.y = q.y /\ p.z = q.z

\* the sample r is at a point of the trajectory whose depth is nearest to
\* mid2 / 2
AtNearestPoint(r, traj, mid2) ==
    \E j \in 1..Len(traj) :
        /\ \A k \in 1..Len(traj) :
               Abs(2 * traj[j].depth - mid2) <= Abs(2 * traj[k].depth - mid2)
        /\ r.x = <<traj[j].x, 1>> /\ r.y = <<traj[j].y, 1>>
        /\ r.z = <<traj[j].z, 1>>

\* C14: a sample whose middle depth lies between the depths of two
\* consecutive points of the sorted trajectory is the linear interpolation
\* between the two, and a sample that no pair of consecutive points
\* straddles is at the point nearest in depth to its middle.
C14_InterpolatedOrNearest ==
    pc = "done" =>
        \A s \in 1..Len(result) :
            LET r == result[s]
                traj == sorted_by_depth(TrajectoryOfHole(r.hole_id))
                mid2 == r.from + r.to
            IN  /\ \A i \in 1..(Len(traj) - 1) :
                       Straddles(traj, i, mid2)
                           => OnSegment(r, traj[i], traj[i + 1], mid2)
                /\ (\A i \in 1..(Len(traj) - 1) : ~Straddles(traj, i, mid2))
                       => AtNearestPoint(r, traj, mid2)

\* one sample strictly inside a segment, away from both its ends, and one
\* below the last point of its trajectory
C14_Witness ==
    /\ pc = "done"
    /\ \E s \in 1..Len(result) :
           LET r == result[s]
               traj == sorted_by_depth(TrajectoryOfHole(r.hole_id))
               mid2 == r.from + r.to
           IN  \E i \in 1..(Len(traj) - 1) :
                   /\ 2 * traj[i].depth < mid2 /\ mid2 < 2 * traj[i + 1].depth
                   /\ r.z # <<traj[i].z, 1>> /\ r.z # <<traj[i + 1].z, 1>>
                   /\ OnSegment(r, traj[i], traj[i + 1], mid2)
    /\ \E s \in 1..Len(result) :
           LET r == result[s]
               traj == sorted_by_depth(TrajectoryOfHole(r.hole_id))
               mid2 == r.from + r.to
           IN  /\ Len(traj) > 1
               /\ mid2 > 2 * traj[Len(traj)].depth
               /\ r.z = <<traj[Len(traj)].z, 1>>

\* a sample of a hole whose trajectory is the collar alone
C14_WitnessSinglePoint ==
    /\ pc = "done"
    /\ \E s \in 1..Len(result) :
           LET traj == TrajectoryOfHole(result[s].hole_id)
           IN  Len(traj) = 1 /\ result[s].z = <<traj[1].z, 1>>

---------------------------------------------------------------------------
(* The neighbours of a block with many points in reach                     *)

\* the indexed points within the search radius of block i
InRadius(i) ==
    {j \in 1..Len(CurPoints) :
        Dist2(CurPoints[j], args.blocks[i])
            <= SEARCH_RADIUS * SEARCH_RADIUS}

\* the points that take part in the estimate of block i
TakingPart(i) == {blocks[i].value.idx[n] : n \in DOMAIN blocks[i].value.idx}

Truncated(i) ==
    /\ i < block_i
    /\ Cardinality(InRadius(i)) > MAX_NEIGH

\* C15: the estimate of a block with more than 12 indexed points within the
\* search radius is computed from exactly 12 of them and from no other
\* point, and none of the 12 is farther from the block centre than a point
\* in the radius left out.
C15_TwelveNearestTakePart ==
    \A i \in 1..Len(blocks) :
        Truncated(i) =>
            /\ Len(blocks[i].value.idx) = MAX_NEIGH
            /\ Cardinality(TakingPart(i)) = MAX_NEIGH
            /\ TakingPart(i) \subseteq InRadius(i)
            /\ \A j \in TakingPart(i) : \A k \in InRadius(i) \ TakingPart(i) :
                   Dist2(CurPoints[j], args.blocks[i])
                       <= Dist2(CurPoints[k], args.blocks[i])

\* fourteen points in the radius of the first block: the two farthest are out
C15_Witness ==
    /\ pc = "crowd_done"
    /\ blocks[1].value.solved
    /\ Cardinality(InRadius(1)) = MAX_NEIGH + 2
    /\ Cardinality(TakingPart(1)) = MAX_NEIGH
    /\ \E k \in InRadius(1) \ TakingPart(1) : \A j \in TakingPart(1) :
           Dist2(CurPoints[j], args.blocks[1])
               < Dist2(CurPoints[k], args.blocks[1])

\* thirteen points, three of them equally far: one of the three is left out
C15_WitnessTie ==
    /\ pc = "crowd_done"
    /\ Cardinality(InRadius(1)) = MAX_NEIGH + 1
    /\ \E k \in InRadius(1) \ TakingPart(1) : \E j \in TakingPart(1) :
           Dist2(CurPoints[j], args.blocks[1])
               = Dist2(CurPoints[k], args.blocks[1])

\* the solve of block i raised LinAlgError
Singular(i) ==
    /\ i < block_i
    /\ Cardinality(InRadius(i)) >= 3
    /\ ~blocks[i].value.solved

\* the first in the order of insertion of the points of InRadius(i) nearest
\* to the centre of block i
NearestInserted(i) ==
    CHOOSE j \in InRadius(i) :
        \A k \in InRadius(i) :
            \/ Dist2(CurPoints[j], args.blocks[i])
                   < Dist2(CurPoints[k], args.blocks[i])
            \/ /\ Dist2(CurPoints[j], args.blocks[i])
                      = Dist2(CurPoints[k], args.blocks[i])
               /\ j <= k

\* C16: when the system of a block with three neighbours or more is
\* singular, the estimate of the block is the value of the neighbour nearest
\* to its centre, the first inserted of those equally near.
C16_SingularFallbackIsNearest ==
    \A i \in 1..Len(blocks) :
        Singular(i) => blocks[i].value.idx[1] = NearestInserted(i)

---------------------------------------------------------------------------
(* The grid of POST /block-model                                           *)

\* ceil(a / b) for a >= 0 and b > 0
CeilDiv(a, b) == (a + b - 1) \div b

\* the centres of an axis that has n blocks of one size from lo on
AxisCentres(lo, size, n) == {lo + size \div 2 + i * size : i \in 0..(n - 1)}

\* an axis of n blocks from lo covers [lo, hi) and ends less than one size
\* after hi
AxisCovered(lo, hi, size, n) ==
    /\ lo + n * size >= hi
    /\ lo + n * size - hi < size

---------------------------------------------------------------------------
(* The bounding box of a project without coordinates                       *)

\* neither a trajectory of the project nor its surface has a point
NoCoordinate(state) ==
    /\ \A h \in 1..Len(state.drillholes) :
           Len(state.drillholes[h].trajectory) = 0
    /\ Len(DocGet(state, "surface_dxf", << >>)) = 0

ValueErrorRaised == [raised |-> "ValueError"]

\* auto_detect_bbox fails for the projects without a coordinate and no other
BboxFailsWithoutCoordinate ==
    \A q \in DOMAIN current_state : \A req \in BlockModelRequests :
        IsNull(auto_detect_bbox(current_state[q].drillholes,
                                DocGet(current_state[q], "surface_dxf", << >>),
                                req.padding))
            <=> NoCoordinate(current_state[q])

\* a step of POST /block-model that ends in the ValueError builds no block
\* and stores nothing; a step that goes on to the estimate has a box
BboxFailureStep ==
    /\ (pc = "idle" /\ result' = ValueErrorRaised) =>
           /\ \E q \in DOMAIN current_state : NoCoordinate(current_state[q])
           /\ blocks' = blocks /\ blocks' = << >>
           /\ pc' = "idle"
           /\ current_state' = current_state
           /\ projects_collection' = projects_collection
    /\ (pc = "idle" /\ pc' = "krige") =>
           /\ ~NoCoordinate(current_state[args'.project_id])
           /\ ~IsNull(args'.bbox)

\* C18: auto_detect_bbox fails exactly for a project whose trajectories and
\* surface have no coordinate; POST /block-model then builds no block and
\* leaves the stored block model and block settings as they were.
C18_BboxFailsOnlyWithoutCoordinates ==
    []BboxFailsWithoutCoordinate /\ [][BboxFailureStep]_vars

\* POST /block-model has raised the ValueError for a project with a set of
\* composites and no coordinate, and nothing of a block model is stored
C18_Witness ==
    /\ pc = "idle" /\ result = ValueErrorRaised
    /\ "p1" \in DOMAIN current_state
    /\ NoCoordinate(current_state["p1"])
    /\ "composites" \in DOMAIN current_state["p1"]
    /\ DocGet(current_state["p1"], "block_model", << >>) = << >>
    /\ "block_model" \notin DOMAIN projects_collection["p1"]

\* a box around the surface alone
C18_WitnessSurfaceOnly ==
    /\ pc = "krige"
    /\ current_state[args.project_id].drillholes = << >>
    /\ args.bbox.minZ = 100 - args.req.padding

---------------------------------------------------------------------------
(* Properties of load_dxf_surface                                          *)

\* every vertex of the entity can be read
WholeEntity(e) == \A i \in 1..Len(e.vertices) : ~IsNull(e.vertices[i])

\* C19: load_dxf_surface does not abort on an entity with a vertex that
\* cannot be read, whatever its type: it returns the points of all the
\* entities that can be read.
C19_BadEntitiesSkipped ==
    /\ pc # "raised"
    /\ pc = "done" =>
           \A i \in 1..Len(args.msp) :
               WholeEntity(args.msp[i]) =>
                   \A n \in 1..Len(EntityPoints(args.msp[i])) :
                       \E m \in 1..Len(result) :
                           result[m] = EntityPoints(args.msp[i])[n]

---------------------------------------------------------------------------
(* The arguments of krige_blocks                                           *)

\* C20: an engine operation leaves its arguments as they were; the list of
\* blocks that the caller gave to krige_blocks holds, during the call and
\* after it, the records it held at the call.
C20_BlocksArgumentUnchanged == blocks = args.blocks

---------------------------------------------------------------------------
(* The composite sets that POST /composites leaves                         *)

\* the last answer is the success of POST /composites
CompositesAnswered ==
    /\ pc = "idle"
    /\ ~IsNull(result)
    /\ "name" \in DOMAIN result
    /\ result.ok

\* the sets and the settings of doc are those of the one name
OnlySet(doc, name) ==
    /\ DOMAIN doc.composites = {name}
    /\ DOMAIN doc.composite_settings = {name}

\* C21: after every successful POST /composites the composites and the
\* composite_settings of the project hold exactly one entry, under the name
\* just generated, in memory and in the persisted document: the sets
\* generated before are gone.
C21_OnlyTheNewSet ==
    CompositesAnswered =>
        \E project_id \in DOMAIN current_state :
            /\ OnlySet(current_state[project_id], result.name)
            /\ project_id \in DOMAIN projects_collection
            /\ OnlySet(projects_collection[project_id], result.name)

\* a set was generated after a block model was built from a set of another
\* name
C21_Witness ==
    /\ CompositesAnswered
    /\ \E project_id \in DOMAIN current_state :
          /\ "block_settings" \in DOMAIN projects_collection[project_id]
          /\ projects_collection[project_id].block_settings.using_composite
                 # result.name
          /\ OnlySet(current_state[project_id], result.name)

---------------------------------------------------------------------------
(* The block model across POST /composites                                 *)

\* the block model and the settings that doc holds
StoredModel(doc) ==
    <<DocGet(doc, "block_model", << >>), DocGet(doc, "block_settings", << >>)>>

\* a step keeps the block model and the block settings of every project, in
\* the document and in memory; a project that the step brings into memory
\* gets those of its document
ModelKept ==
    /\ \A project_id \in DOMAIN projects_collection :
          /\ project_id \in DOMAIN projects_collection'
          /\ StoredModel(projects_collection'[project_id])
                 = StoredModel(projects_collection[project_id])
    /\ \A project_id \in DOMAIN current_state' :
          StoredModel(current_state'[project_id])
             = StoredModel(IF project_id \in DOMAIN current_state
                           THEN current_state[project_id]
                           ELSE projects_collection[project_id])

\* the settings of a stored block model name one composite set
OneUsingComposite ==
    \A project_id \in DOMAIN projects_collection :
        LET doc == projects_collection[project_id]
        IN  "block_settings" \in DOMAIN doc =>
                doc.block_settings.using_composite
                    \in {CompName(r) : r \in CompositeRequests}

\* C22: the settings of a block model record exactly one using_composite,
\* and POST /composites, answered with success or with an error, leaves the
\* stored block model and its settings as they were, also when the set it
\* generates replaces the one the model was built from.
C22_CompositesKeepBlockModel ==
    []OneUsingComposite /\ [][PostComposites => ModelKept]_vars

\* the set a block model was built from has been generated again
C22_Witness ==
    /\ CompositesAnswered
    /\ \E project_id \in DOMAIN current_state :
          LET state == current_state[project_id]
          IN  /\ DocGet(state, "block_settings", << >>) # << >>
              /\ state.block_settings.using_composite = result.name
              /\ state.block_model # << >>
              /\ StoredModel(projects_collection[project_id])
                     = StoredModel(state)

---------------------------------------------------------------------------
(* The values that the API stores                                          *)

\* every project state in memory and every document
StoredProjects ==
    {current_state[q] : q \in DOMAIN current_state}
    \cup {projects_collection[q] : q \in DOMAIN projects_collection}

\* the values of every composite set of doc
CompositeValues(doc) ==
    LET sets == DocGet(doc, "composites", << >>)
    IN  UNION {{sets[name][i].value : i \in 1..Len(sets[name])} :
                  name \in DOMAIN sets}

\* the blocks of the block model of doc
ModelBlocks(doc) ==
    LET model == DocGet(doc, "block_model", << >>)
    IN  {model[i] : i \in 1..Len(model)}

\* C23: every composite value and every block estimate stored in memory or
\* in a document is the sentinel -99 or a number that is not negative, and
\* no stored block keeps a field "value".
C23_StoredValuesSentinelOrNotNegative ==
    \A doc \in StoredProjects :
        /\ \A v \in CompositeValues(doc) :
              ~IsNull(v) /\ (v = <<-99, 1>> \/ v[1] >= 0)
        /\ \A b \in ModelBlocks(doc) :
              /\ "value" \notin DOMAIN b
              /\ ~IsNull(b.est)
              /\ b.est = RealOfRat(<<-99, 1>>) \/ b.est.num.s >= 0

\* a stored set holds the sentinel, for a negative or a missing value, and
\* the stored model holds a block with the sentinel
C23_Witness ==
    /\ \E doc \in StoredProjects :
          /\ <<-99, 1>> \in CompositeValues(doc)
          /\ \E b \in ModelBlocks(doc) : b.est = RealOfRat(<<-99, 1>>)
    /\ pc = "idle"

\* a stored estimate that is a number: the positive value of a composite
C23_WitnessEstimate ==
    \E doc \in StoredProjects :
        /\ \E v \in CompositeValues(doc) : v[1] > 0
        /\ \E b \in ModelBlocks(doc) : b.est.num.s > 0

---------------------------------------------------------------------------
(* The drillholes of a project                                             *)

\* a step keeps the drillholes of every project that it does not create or
\* delete, in the document and in memory; a project that the step brings
\* into memory gets those of its document
DrillholesKept ==
    /\ \A q \in DOMAIN projects_collection \cap DOMAIN projects_collection' :
          projects_collection'[q].drillholes = projects_collection[q].drillholes
    /\ \A q \in DOMAIN current_state' :
          \/ q \in DOMAIN current_state
               /\ current_state'[q].drillholes = current_state[q].drillholes
          \/ q \notin DOMAIN current_state
               /\ q \in DOMAIN projects_collection
               /\ current_state'[q].drillholes
                      = projects_collection[q].drillholes
          \/ q \notin DOMAIN current_state \cup DOMAIN projects_collection

\* the step answers a PATCH that brought a base file; the project that
\* POST /upload-files creates was no project before
Ingested ==
    /\ requests' # requests
    /\ "regenerated" \in DOMAIN result'
    /\ result'.regenerated

C24_WitnessNameAndDxf ==
    /\ pc = "idle"
    /\ ~IsNull(result)
    /\ "regenerated" \in DOMAIN result
    /\ ~result.regenerated
    /\ result.files_updated
    /\ \E q \in DOMAIN current_state :
          /\ current_state[q].nombre_proyecto = "b"
          /\ current_state[q].drillholes \in UploadedHoles

---------------------------------------------------------------------------
(* A PATCH that brings a base file                                         *)

\* every key of keys is missing from doc, None or empty
AllEmpty(doc, keys) == \A key \in keys : DocGet(doc, key, << >>) = << >>

\* the project of the answered PATCH holds the drillholes of its collar
\* file and no derived data, in memory and in its document
Regenerated ==
    LET state == current_state'[result'.project_id]
        doc == projects_collection'[result'.project_id]
    IN  /\ state.drillholes = disk'[state.files.collar_path]
        /\ doc.drillholes = state.drillholes
        /\ AllEmpty(state, DerivedKeys \cup {"assay_feature", "assay_render"})
        /\ AllEmpty(doc, DerivedKeys)

\* C25: a PATCH that brings a base file regenerates the drillholes and
\* clears the derived data: when it is answered, the composites, the
\* composite settings, the block model and the block settings are empty in
\* memory and in the document, and the assay feature and the assay render
\* are empty in memory.
C25_BaseFilePatchClearsDerivedData ==
    [][Ingested => Regenerated]_vars

\* a PATCH that brought a base file is answered: the document holds None
\* for the derived data and the holes that the PATCH brought
C25_Witness ==
    /\ pc = "idle"
    /\ ~IsNull(result)
    /\ "regenerated" \in DOMAIN result
    /\ result.regenerated
    /\ LET doc == projects_collection[result.project_id]
       IN  /\ DerivedKeys \subseteq Nones(doc)
           /\ doc.drillholes \notin UploadedHoles
           /\ IsNone(current_state[result.project_id], "assay_render")

---------------------------------------------------------------------------
(* POST /block-model without the requested set                             *)

\* the step answers ok = false and changes no state
RefusedUnchanged ==
    /\ pc' = "idle"
    /\ "ok" \in DOMAIN result'
    /\ ~result'.ok
    /\ UNCHANGED <<current_state, projects_collection, disk>>

\* a project in memory holds a composite set of a name that can be asked
\* for; when the step calls krige_blocks, it is the set asked for
RequestedSetExists ==
    \E q \in DOMAIN current_state, req \in BlockModelRequests :
        /\ "composites" \in DOMAIN current_state[q]
        /\ ~IsNone(current_state[q], "composites")
        /\ req.composite_name \in DOMAIN current_state[q].composites
        /\ pc' = "krige" => args'.project_id = q /\ args'.req = req

\* C26: POST /block-model answers ok = false and changes no state whenever
\* the project holds no composite set of the requested name, in every
\* reachable state: before any POST /composites, after a PATCH that
\* cleared the composites, and after GET /projects/{id} restored the state
\* from the document.
C26_BlockModelRefusedWithoutSet ==
    [][PostBlockModel => (RefusedUnchanged \/ RequestedSetExists)]_vars

---------------------------------------------------------------------------
(* The state in memory and the document                                    *)

\* the keys that are kept in memory and in the document
SharedKeys ==
    {"files", "drillholes", "surface_dxf", "composites", "composite_settings",
     "block_model", "block_settings"}

\* state and doc hold the same under key: missing, None and empty are alike
Agree(state, doc, key) ==
    DocGet(state, key, << >>) = DocGet(doc, key, << >>)

\* C27: after any sequence of completed requests, the name, the files, the
\* drillholes, the surface points, the composites, the composite settings,
\* the block model and the block settings of every project in memory are
\* those of its document, after a PATCH that ends with an error and after a
\* PATCH whose DXF gives no point as well.
C27_MemoryAgreesWithDocument ==
    pc = "idle" =>
        \A q \in DOMAIN current_state \cap DOMAIN projects_collection :
            LET state == current_state[q]
                doc == projects_collection[q]
            IN  /\ DocGet(state, "nombre_proyecto", "")
                       = DocGet(doc, "nombre_proyecto", "")
                /\ \A key \in SharedKeys : Agree(state, doc, key)

\* the same without the files and the surface points
C27_DerivedDataAgree ==
    pc = "idle" =>
        \A q \in DOMAIN current_state \cap DOMAIN projects_collection :
            LET state == current_state[q]
                doc == projects_collection[q]
            IN  /\ DocGet(state, "nombre_proyecto", "")
                       = DocGet(doc, "nombre_proyecto", "")
                /\ \A key \in SharedKeys \ {"files", "surface_dxf"} :
                      Agree(state, doc, key)

\* the surface points alone
C27_SurfaceAgrees ==
    pc = "idle" =>
        \A q \in DOMAIN current_state \cap DOMAIN projects_collection :
            Agree(current_state[q], projects_collection[q], "surface_dxf")

---------------------------------------------------------------------------
(* The files of a project                                                  *)

\* what the paths stored in doc point to on a disk: the content of every
\* file, or Null for a path without a file
PointedFiles(doc, files) ==
    [key \in DOMAIN doc.files |->
        IF doc.files[key] \in DOMAIN files THEN <<files[doc.files[key]]>>
        ELSE Null]

\* a step that leaves the document of a project as it was, as every
\* request for another project does, leaves the files of the project
OtherProjectsFilesKept ==
    \A q \in DOMAIN projects_collection \cap DOMAIN projects_collection' :
        projects_collection'[q] = projects_collection[q] =>
            PointedFiles(projects_collection[q], disk')
                = PointedFiles(projects_collection[q], disk)

\* C28: the composites and the assay render of a project are computed from
\* the assay data uploaded for that project: creating, patching or
\* deleting another project of the same user never changes, replaces or
\* removes a file that the stored paths of the project point to.
C28_RequestsKeepFilesOfOtherProjects ==
    [][OtherProjectsFilesKept]_vars

---------------------------------------------------------------------------
(* DELETE /projects/{id} beside a POST /composites of the same project      *)

DeleteCompleted == pc = "serving" /\ args.delete.at = "ok"

\* C29: once DELETE /projects/{id} has answered ok, the project is neither
\* in the collection nor in current_state, whatever a POST /composites of the
\* same project that runs beside it does
C29_DeletedProjectStaysAbsent ==
    DeleteCompleted =>
        /\ ServedProject \notin DOMAIN projects_collection
        /\ ServedProject \notin DOMAIN current_state

---------------------------------------------------------------------------
(* The end of the loops of POST /composites and POST /block-model           *)

LoopsEnded == pc \in {"done", "grid_done"}

\* C30: the window walk of build_composites and the three nested grid loops
\* of POST /block-model reach their end for every composite_length and every
\* block size that the request schemas accept, zero and negative ones too
C30_LoopsTerminate == <>LoopsEnded

\* for the positive sizes and lengths the loops give what the functions give
PositiveLoopsAgree ==
    /\ (pc = "done" /\ args.length > 0) =>
           result = build_composites(args.drillholes, args.assay_df,
                                     args.length, args.top_cut,
                                     args.min_samples)
    /\ (pc = "grid_done" /\ args.req.block_size_x > 0
            /\ args.req.block_size_y > 0 /\ args.req.block_size_z > 0) =>
           blocks = BuildBlocks(args.bbox, args.req)

====
